---- MODULE Spec2Model ----
(***************************************************************************)
(* A model of the receipt store, its filter/selection query, the year      *)
(* summary (getReceiptStats) and the two export renderers of               *)
(* src/server/routes.ts.                                                   *)
(*                                                                         *)
(* Representation.                                                         *)
(*  - A JavaScript Date is the number of hours since 00:00 UTC of          *)
(*    1 January of the first calendar year of the model.                  *)
(*  - A numeric(10,2) column value is its number of cents.  Number(x) of   *)
(*    such a value is held in units of 1/21 cent, so that x / 1.05         *)
(*    (= x * 20 / 21) is exact; IEEE rounding of the doubles, which is far *)
(*    below a cent for these sums, is not modelled.                        *)
(*  - An optional value (undefined / null) is the empty tuple, a present   *)
(*    value v is <<v>>.                                                    *)
(*  - A text is a tuple of one-character strings where its characters      *)
(*    matter (merchant names, search strings), a string otherwise.         *)
(*  - A JavaScript Map or plain object is a tuple of [key, value] entries  *)
(*    in insertion order.                                                  *)
(***************************************************************************)
EXTENDS Integers, Sequences, FiniteSets, TLC

VARIABLES
    tz,        \* the server's time zone: the hours local time is behind UTC
               \* (getTimezoneOffset() / 60), set by the process environment
    receipts,  \* the receipts table: a tuple of rows
    nextId,    \* the serial id the next inserted row gets
    response,  \* the response in flight to the client, or Idle
    backupFile, \* the backup file the client has saved, or Null
    modal      \* the upload modal: its React state (open, step, files, index)
               \* and what it has pending (reset timers, file loops, a save)

\* the state kept by the client
client == <<backupFile, modal>>

vars == <<tz, receipts, nextId, response, client>>

Null == <<>>
Some(v) == <<v>>

\* ------------------------------------------------------------ bounds
MaxReceipts == 2
\* files ever selected in the upload modal, while it processes them
MaxFiles == 2
\* files selected at once for review
MaxReviewFiles == 3
\* reset timers pending at once
MaxTimers == 2

\* ------------------------------------------------------------ calendar
CalendarYears == 2023 .. 2025
EpochYear == CHOOSE y \in CalendarYears : \A z \in CalendarYears : y <= z
NMonths == 12 * Cardinality(CalendarYears)

IsLeapYear(y) == (y % 4 = 0 /\ y % 100 # 0) \/ y % 400 = 0

DaysInMonth(y, m) ==
    IF m = 2 THEN (IF IsLeapYear(y) THEN 29 ELSE 28)
    ELSE IF m \in {4, 6, 9, 11} THEN 30 ELSE 31

RECURSIVE DaysBeforeMonth(_)
DaysBeforeMonth(k) ==
    IF k = 0 THEN 0
    ELSE DaysBeforeMonth(k - 1)
         + DaysInMonth(EpochYear + ((k - 1) \div 12), ((k - 1) % 12) + 1)

\* MonthStart[k]: the instant, in hours, at which month k (0 = January of
\* EpochYear) begins on a clock showing the calendar fields.
MonthStart == [k \in 0 .. NMonths |-> 24 * DaysBeforeMonth(k)]

\* new Date("YYYY-MM-DD"): an ISO date-only string is midnight UTC.
NewDateISO(y, m, d) == MonthStart[(y - EpochYear) * 12 + (m - 1)] + 24 * (d - 1)

\* new Date(year, monthIndex, day): the fields are local time; monthIndex 12
\* and day 0 roll over as the Date constructor rolls them.
NewDateLocal(y, monthIndex, d, zone) ==
    MonthStart[(y - EpochYear) * 12 + monthIndex] + 24 * (d - 1) + zone

\* The month, counted from January of EpochYear, that a clock `zone` hours
\* behind UTC shows at instant t.
LocalMonthOf(t, zone) ==
    CHOOSE k \in 0 .. (NMonths - 1) :
        MonthStart[k] <= t - zone /\ t - zone < MonthStart[k + 1]

\* Date.prototype.getFullYear / getMonth / getDate: local-time fields.
GetFullYear(t, zone) == EpochYear + (LocalMonthOf(t, zone) \div 12)
GetMonth(t, zone) == LocalMonthOf(t, zone) % 12
GetDate(t, zone) == ((t - zone - MonthStart[LocalMonthOf(t, zone)]) \div 24) + 1

\* The UTC calendar fields of an instant: the calendar date a date-only entry
\* was given as.
UTCYear(t) == GetFullYear(t, 0)
UTCMonth(t) == GetMonth(t, 0) + 1
UTCDay(t) == GetDate(t, 0)

\* Date.prototype.toISOString, to the hour: the UTC fields of the instant;
\* and new Date(text) of such a text.
ToISOString(t) == <<UTCYear(t), UTCMonth(t), UTCDay(t), t % 24>>
ParseISOString(text) == NewDateISO(text[1], text[2], text[3]) + text[4]

monthNames ==
    <<"January", "February", "March", "April", "May", "June",
      "July", "August", "September", "October", "November", "December">>

\* toLocaleString('default', { month: 'long' }): the local month's name.
MonthLong(t, zone) == monthNames[GetMonth(t, zone) + 1]

\* ------------------------------------------------------------ tuples
Range(s) == {s[i] : i \in DOMAIN s}

\* Every tuple that lists the elements of the finite set S once each.
Orderings(S) ==
    {s \in [1 .. Cardinality(S) -> S] : \A x \in S : \E i \in DOMAIN s : s[i] = x}

\* ------------------------------------------------------------ schema
\* A row of the receipts table (description, imageUrl and createdAt take no
\* part in selection or aggregation).
NewReceipt(id, u, m, d, a, t, c) ==
    [id |-> id, userId |-> u, merchantName |-> m, date |-> d,
     amount |-> a, tax |-> t, category |-> c]

\* The filter object the handlers hand to getReceipts.
Filter(u, s, e, y, mo, c, q) ==
    [userId |-> u, startDate |-> s, endDate |-> e, year |-> y, month |-> mo,
     category |-> c, search |-> q]

\* ------------------------------------------------------------ SQL LIKE
\* text LIKE pattern: % matches any run of characters, _ any one character,
\* every other character only itself (case-sensitively).
RECURSIVE Like(_, _)
Like(text, pattern) ==
    IF pattern = <<>> THEN text = <<>>
    ELSE IF Head(pattern) = "%"
         THEN Like(text, Tail(pattern)) \/ (text # <<>> /\ Like(Tail(text), pattern))
         ELSE /\ text # <<>>
              /\ (Head(pattern) = "_" \/ Head(pattern) = Head(text))
              /\ Like(Tail(text), Tail(pattern))

\* ------------------------------------------------------------ getReceipts
\* new Date(filters.startDate): the filter's date strings are <<y, m, d>>.
ParseDateString(s) == NewDateISO(s[1], s[2], s[3])

\* if (filters?.startDate || filters?.endDate)
HasDateRange(f) == f.startDate # Null \/ f.endDate # Null

DateRangeCondition(r, f) ==
    /\ (f.startDate # Null => r.date >= ParseDateString(f.startDate[1]))
    /\ (f.endDate # Null => r.date <= ParseDateString(f.endDate[1]))

MonthCondition(r, f, zone) ==
    LET startOfMonth == NewDateISO(f.year[1], f.month[1], 1)
        endOfMonth == NewDateLocal(GetFullYear(startOfMonth, zone),
                                   GetMonth(startOfMonth, zone) + 1, 0, zone)
    IN  r.date >= startOfMonth /\ r.date <= endOfMonth

YearCondition(r, y) ==
    r.date >= NewDateISO(y, 1, 1) /\ r.date <= NewDateISO(y, 12, 31)

SearchCondition(r, f) ==
    Like(r.merchantName, <<"%">> \o f.search[1] \o <<"%">>)

\* Selected with the year/month branch tried before the date range.
SelectedYearBeforeRange(r, f, zone) ==
    /\ (f.userId # Null => r.userId = f.userId[1])
    /\ IF f.year # Null
       THEN (IF f.month # Null THEN MonthCondition(r, f, zone)
             ELSE YearCondition(r, f.year[1]))
       ELSE DateRangeCondition(r, f)
    /\ (f.category # Null => r.category = f.category[1])
    /\ (f.search # Null => SearchCondition(r, f))

\* The conjunction of the conditions getReceipts pushes.
Selected(r, f, zone) ==
    /\ (f.userId # Null => r.userId = f.userId[1])
    /\ IF HasDateRange(f) THEN DateRangeCondition(r, f)
       ELSE IF f.year # Null
            THEN (IF f.month # Null THEN MonthCondition(r, f, zone)
                  ELSE YearCondition(r, f.year[1]))
            ELSE TRUE
    /\ (f.category # Null => r.category = f.category[1])
    /\ (f.search # Null => SearchCondition(r, f))

\* A result in whatever order the rows are read.
IsInAnyOrder(s) == TRUE

\* ORDER BY date DESC: rows of equal date come in an order SQL does not fix.
IsDateDescending(s) == \A i, j \in DOMAIN s : i < j => s[i].date >= s[j].date

\* Every result getReceipts may return for the table `rows`.
getReceipts(rows, f, zone) ==
    {s \in Orderings({r \in Range(rows) : Selected(r, f, zone)}) : IsDateDescending(s)}

\* ------------------------------------------------------------ numbers
\* 1.05 = RateNum / RateDen.
RateNum == 21
RateDen == 20

\* Number(r.amount), Number(r.tax): a column value of c cents, in 1/21 cent.
Number(c) == c * RateNum

\* amount - amount / 1.05
DeriveTax(amount) == amount - ((amount * RateDen) \div RateNum)

\* The truth value JavaScript gives r.tax: the column yields null or the
\* decimal text of the value ("0.00" for zero), and every non-empty text is
\* truthy.
TaxIsTruthyAsNumber(tax) == tax # Null /\ tax[1] # 0
TaxIsTruthy(tax) == tax # Null

\* getTax without the stored tax.
getTaxAlwaysDerived(r) == DeriveTax(Number(r.amount))

\* getReceiptStats: r.tax ? Number(r.tax) : Number(r.amount) - Number(r.amount) / 1.05
getTax(r) ==
    IF TaxIsTruthy(r.tax) THEN Number(r.tax[1]) ELSE DeriveTax(Number(r.amount))

\* Both exports: Number(r.tax || (amount - amount / 1.05))
ExportTax(r) ==
    IF TaxIsTruthy(r.tax) THEN Number(r.tax[1]) ELSE DeriveTax(Number(r.amount))

\* ------------------------------------------------------------ Map / object
Entry(k, v) == [key |-> k, value |-> v]

MapHas(m, k) == \E i \in DOMAIN m : m[i].key = k
MapGet(m, k) == m[CHOOSE i \in DOMAIN m : m[i].key = k].value

\* map.set(k, v), obj[k] = v: a present key keeps its place.
MapSet(m, k, v) ==
    IF MapHas(m, k)
    THEN [i \in DOMAIN m |-> IF m[i].key = k THEN Entry(k, v) ELSE m[i]]
    ELSE Append(m, Entry(k, v))

\* The property names of the model that are canonical array indices, with
\* their values.
ArrayIndexValue == ("7" :> 7) @@ ("30" :> 30)
IsArrayIndex(k) == k \in DOMAIN ArrayIndexValue

RECURSIVE InsertIndexKey(_, _)
InsertIndexKey(s, e) ==
    IF s = <<>> THEN <<e>>
    ELSE IF ArrayIndexValue[Head(s).key] < ArrayIndexValue[e.key]
         THEN <<Head(s)>> \o InsertIndexKey(Tail(s), e)
         ELSE <<e>> \o s

RECURSIVE IndexKeysAscending(_)
IndexKeysAscending(s) ==
    IF s = <<>> THEN <<>>
    ELSE InsertIndexKey(IndexKeysAscending(Tail(s)), Head(s))

\* Object.entries(obj): the array-index keys in ascending numeric order, then
\* the other string keys in insertion order (OrdinaryOwnPropertyKeys).
ObjectEntries(obj) ==
    IndexKeysAscending(SelectSeq(obj, LAMBDA e : IsArrayIndex(e.key)))
        \o SelectSeq(obj, LAMBDA e : ~IsArrayIndex(e.key))

\* Array.from(map.entries()): insertion order, whatever the keys.
MapEntries(m) == m

\* ------------------------------------------------------------ Array.sort
\* array.sort((a, b) => key(b) - key(a)): Array.prototype.sort is stable, so an
\* element stays behind every earlier element whose key is not smaller.  The
\* tuple sorted holds Keyed(key(x), x) for each element x.
Keyed(k, x) == [sortKey |-> k, item |-> x]
Items(s) == [i \in DOMAIN s |-> s[i].item]

RECURSIVE InsertDesc(_, _)
InsertDesc(s, e) ==
    IF s = <<>> THEN <<e>>
    ELSE IF Head(s).sortKey >= e.sortKey
         THEN <<Head(s)>> \o InsertDesc(Tail(s), e)
         ELSE <<e>> \o s

RECURSIVE StableSortDesc(_)
StableSortDesc(s) ==
    IF s = <<>> THEN <<>>
    ELSE InsertDesc(StableSortDesc(SubSeq(s, 1, Len(s) - 1)), s[Len(s)])

\* .sort((a, b) => b.total - a.total)
SortByTotalDesc(s) ==
    Items(StableSortDesc([i \in DOMAIN s |-> Keyed(s[i].total, s[i])]))

\* .sort((a, b) => b[1].amount - a[1].amount) on Object.entries
SortEntriesByAmountDesc(s) ==
    Items(StableSortDesc([i \in DOMAIN s |-> Keyed(s[i].value.amount, s[i])]))

\* ------------------------------------------------------------ getReceiptStats
Bucket(total, tax) == [total |-> total, tax |-> tax]

\* The where-conditions of the year summary.
StatsSelected(r, userId, year) ==
    /\ r.date >= NewDateISO(year, 1, 1)
    /\ r.date <= NewDateISO(year, 12, 31)
    /\ (userId # Null => r.userId = userId[1])

\* db.select().from(receipts).where(...): no ORDER BY, the rows come in an
\* order SQL does not fix.
StatsRows(rows, userId, year) ==
    Orderings({r \in Range(rows) : StatsSelected(r, userId, year)})

RECURSIVE SumAmount(_)
SumAmount(rs) == IF rs = <<>> THEN 0 ELSE SumAmount(SubSeq(rs, 1, Len(rs) - 1)) + Number(rs[Len(rs)].amount)

RECURSIVE SumTax(_)
SumTax(rs) == IF rs = <<>> THEN 0 ELSE SumTax(SubSeq(rs, 1, Len(rs) - 1)) + getTax(rs[Len(rs)])

\* InitMonthMap whose loop stops one month early.
RECURSIVE InitMonthMapElevenMonths(_, _, _, _)
InitMonthMapElevenMonths(year, n, empty, zone) ==
    IF n <= 1 THEN <<>>
    ELSE MapSet(InitMonthMapElevenMonths(year, n - 1, empty, zone),
                MonthLong(NewDateLocal(year, n - 2, 1, zone), zone), empty)

\* for (let i = 0; i < 12; i++) { monthName = new Date(Number(year), i)...; map.set(monthName, empty) }
RECURSIVE InitMonthMap(_, _, _, _)
InitMonthMap(year, n, empty, zone) ==
    IF n = 0 THEN <<>>
    ELSE MapSet(InitMonthMap(year, n - 1, empty, zone),
                MonthLong(NewDateLocal(year, n - 1, 1, zone), zone), empty)

AddToBucket(b, r) == Bucket(b.total + Number(r.amount), b.tax + getTax(r))

\* yearReceipts.forEach over monthlyMap
RECURSIVE FillMonthlyMap(_, _, _)
FillMonthlyMap(map, rs, zone) ==
    IF rs = <<>> THEN map
    ELSE LET r == Head(rs)
             monthName == MonthLong(r.date, zone)
         IN  FillMonthlyMap(MapSet(map, monthName, AddToBucket(MapGet(map, monthName), r)),
                            Tail(rs), zone)

\* AddToCategoryMap without the read of the current bucket.
AddToCategoryMapOverwriting(catMap, r) ==
    MapSet(catMap, r.category, AddToBucket(Bucket(0, 0), r))

\* categoryMap.get(r.category) || { total: 0, tax: 0 }, then set
AddToCategoryMap(catMap, r) ==
    MapSet(catMap, r.category,
           AddToBucket(IF MapHas(catMap, r.category) THEN MapGet(catMap, r.category)
                       ELSE Bucket(0, 0), r))

\* yearReceipts.forEach over monthlyCategoryMap
RECURSIVE FillMonthlyCategoryMap(_, _, _)
FillMonthlyCategoryMap(map, rs, zone) ==
    IF rs = <<>> THEN map
    ELSE LET r == Head(rs)
             monthName == MonthLong(r.date, zone)
         IN  FillMonthlyCategoryMap(
                 MapSet(map, monthName, AddToCategoryMap(MapGet(map, monthName), r)),
                 Tail(rs), zone)

RECURSIVE FillCategoryMap(_, _)
FillCategoryMap(map, rs) ==
    IF rs = <<>> THEN map
    ELSE FillCategoryMap(AddToCategoryMap(map, Head(rs)), Tail(rs))

\* Array.from(categoryMap.entries()).map(([category, data]) => ({ category, ...data }))
CategoryEntries(catMap) ==
    [i \in DOMAIN MapEntries(catMap) |->
        [category |-> catMap[i].key, total |-> catMap[i].value.total,
         tax |-> catMap[i].value.tax]]

\* The object getReceiptStats returns for the rows read, in the order read.
getReceiptStats(yearReceipts, year, zone) ==
    LET monthlyMap ==
            FillMonthlyMap(InitMonthMap(year, 12, Bucket(0, 0), zone), yearReceipts, zone)
        monthlyCategoryMap ==
            FillMonthlyCategoryMap(InitMonthMap(year, 12, <<>>, zone), yearReceipts, zone)
        categoryMap == FillCategoryMap(<<>>, yearReceipts)
    IN  [totalExpenses |-> SumAmount(yearReceipts),
         totalTax |-> SumTax(yearReceipts),
         monthlyBreakdown |->
            [i \in DOMAIN MapEntries(monthlyMap) |->
                [month |-> monthlyMap[i].key, total |-> monthlyMap[i].value.total,
                 tax |-> monthlyMap[i].value.tax]],
         categoryBreakdown |-> CategoryEntries(categoryMap),
         monthlyCategoryBreakdown |->
            [i \in DOMAIN MapEntries(monthlyCategoryMap) |->
                [month |-> monthlyCategoryMap[i].key,
                 categories |-> CategoryEntries(monthlyCategoryMap[i].value)]]]

\* StatsCards: summary.categoryBreakdown.sort((a, b) => b.total - a.total)[0]
StatsCardsTopCategory(categoryBreakdown) ==
    IF categoryBreakdown = <<>> THEN Null
    ELSE Some(SortByTotalDesc(categoryBreakdown)[1])

\* ------------------------------------------------------------ exports
Totals(amount, tax, count) == [amount |-> amount, tax |-> tax, count |-> count]

\* categoryTotals[c] / summaryByCategory[c] / summaryByMonth[k]: created at
\* zero when absent, then amount, tax and count are added to.
AddToTotals(obj, k, amount, tax) ==
    LET cur == IF MapHas(obj, k) THEN MapGet(obj, k) ELSE Totals(0, 0, 0)
    IN  MapSet(obj, k, Totals(cur.amount + amount, cur.tax + tax, cur.count + 1))

\* The query string a client sends, as the export handlers read it: month,
\* year, category, search and userId; startDate and endDate are not read.
ExportFilters(query) ==
    Filter(query.userId, Null, Null, query.year, query.month, query.category,
           query.search)

\* The list handler reads all seven.
ListFilters(query) ==
    Filter(query.userId, query.startDate, query.endDate, query.year, query.month,
           query.category, query.search)

\* --- PDF
RECURSIVE PdfCategoryTotals(_, _)
PdfCategoryTotals(obj, rs) ==
    IF rs = <<>> THEN obj
    ELSE PdfCategoryTotals(
             AddToTotals(obj, Head(rs).category, Number(Head(rs).amount), ExportTax(Head(rs))),
             Tail(rs))

\* One row of a category table: pre-tax is amount - tax.
CategoryRow(e) ==
    [category |-> e.key, count |-> e.value.count,
     preTax |-> e.value.amount - e.value.tax, tax |-> e.value.tax,
     total |-> e.value.amount]

\* sortedCategories and the rows of EXPENSE BREAKDOWN BY CATEGORY
PdfCategoryRows(receiptsData) ==
    LET sortedCategories ==
            SortEntriesByAmountDesc(ObjectEntries(PdfCategoryTotals(<<>>, receiptsData)))
    IN  [i \in DOMAIN sortedCategories |-> CategoryRow(sortedCategories[i])]

RECURSIVE PdfTotalAmount(_)
PdfTotalAmount(rs) ==
    IF rs = <<>> THEN 0
    ELSE PdfTotalAmount(SubSeq(rs, 1, Len(rs) - 1)) + Number(rs[Len(rs)].amount)

RECURSIVE PdfTotalTax(_)
PdfTotalTax(rs) ==
    IF rs = <<>> THEN 0
    ELSE PdfTotalTax(SubSeq(rs, 1, Len(rs) - 1)) + ExportTax(rs[Len(rs)])

\* PdfRecordRow with the pre-tax taken from the 5% rate.
PdfRecordRowPreTaxByRate(r) ==
    [id |-> r.id, preTax |-> (Number(r.amount) * RateDen) \div RateNum, tax |-> ExportTax(r),
     total |-> Number(r.amount)]

\* A ledger row of a receipt: pre-tax, tax, total.
PdfRecordRow(r) ==
    [id |-> r.id, preTax |-> Number(r.amount) - ExportTax(r), tax |-> ExportTax(r),
     total |-> Number(r.amount)]

\* --- workbook
\* toLocaleDateString() of a date, as its local <<year, month, day>>, and
\* new Date(thatText): local midnight of that day.
LocaleDateString(t, zone) == <<GetFullYear(t, zone), GetMonth(t, zone) + 1, GetDate(t, zone)>>
ParseLocaleDateString(s, zone) == NewDateLocal(s[1], s[2] - 1, s[3], zone)

MonthYearLabel(t, zone) == <<monthNames[GetMonth(t, zone) + 1], GetFullYear(t, zone)>>

ExcelRow(r, zone) ==
    [Year |-> GetFullYear(r.date, zone),
     Month |-> monthNames[GetMonth(r.date, zone) + 1],
     MonthYear |-> MonthYearLabel(r.date, zone),
     Date |-> LocaleDateString(r.date, zone),
     Category |-> r.category,
     Merchant |-> r.merchantName,
     PreTax |-> Number(r.amount) - ExportTax(r),
     Tax |-> ExportTax(r),
     TotalPaid |-> Number(r.amount)]

\* receipts.map(...) then excelData.sort by the parsed Date column, descending
ExcelData(rs, zone) ==
    LET rows == [i \in DOMAIN rs |-> ExcelRow(rs[i], zone)]
    IN  Items(StableSortDesc(
            [i \in DOMAIN rows |-> Keyed(ParseLocaleDateString(rows[i].Date, zone), rows[i])]))

RECURSIVE ExcelSummaryByMonth(_, _)
ExcelSummaryByMonth(obj, rows) ==
    IF rows = <<>> THEN obj
    ELSE ExcelSummaryByMonth(
             AddToTotals(obj, Head(rows).MonthYear, Head(rows).TotalPaid, Head(rows).Tax),
             Tail(rows))

RECURSIVE ExcelSummaryByCategory(_, _)
ExcelSummaryByCategory(obj, rows) ==
    IF rows = <<>> THEN obj
    ELSE ExcelSummaryByCategory(
             AddToTotals(obj, Head(rows).Category, Head(rows).TotalPaid, Head(rows).Tax),
             Tail(rows))

\* monthlySummaryData: Object.entries(summaryByMonth), unsorted; a "Month Year"
\* label is never an array index, so the entries come in insertion order.
ExcelMonthlySummaryData(excelData) ==
    LET es == ExcelSummaryByMonth(<<>>, excelData)
    IN  [i \in DOMAIN es |->
            [Month |-> es[i].key, Receipts |-> es[i].value.count,
             PreTax |-> es[i].value.amount - es[i].value.tax,
             Tax |-> es[i].value.tax, TotalPaid |-> es[i].value.amount]]

\* categorySummaryData: Object.entries(summaryByCategory) sorted by amount
ExcelCategorySummaryData(excelData) ==
    LET es == SortEntriesByAmountDesc(ObjectEntries(ExcelSummaryByCategory(<<>>, excelData)))
    IN  [i \in DOMAIN es |-> CategoryRow(es[i])]

\* --- PDF ledger
\* groupedByMonth[monthYear][receipt.category].push(receipt), for the
\* receipts in the order selected.
AddToGroup(obj, r, zone) ==
    LET monthYear == MonthYearLabel(r.date, zone)
        categories == IF MapHas(obj, monthYear) THEN MapGet(obj, monthYear) ELSE <<>>
        list == IF MapHas(categories, r.category) THEN MapGet(categories, r.category)
                ELSE <<>>
    IN  MapSet(obj, monthYear, MapSet(categories, r.category, Append(list, r)))

RECURSIVE GroupByMonth(_, _, _)
GroupByMonth(obj, rs, zone) ==
    IF rs = <<>> THEN obj
    ELSE GroupByMonth(AddToGroup(obj, Head(rs), zone), Tail(rs), zone)

\* new Date(`${month} 1, ${year}`) of a period key
ParseMonthLabel(label, zone) ==
    NewDateLocal(label[2], (CHOOSE i \in 1 .. 12 : monthNames[i] = label[1]) - 1, 1, zone)

\* Object.keys(groupedByMonth).sort((a, b) => dateA.getTime() - dateB.getTime())
SortedMonths(groupedByMonth, zone) ==
    Items(StableSortDesc([i \in DOMAIN groupedByMonth |->
                             Keyed(0 - ParseMonthLabel(groupedByMonth[i].key, zone),
                                   groupedByMonth[i].key)]))

\* The category names of the model in the order of their UTF-16 code units,
\* the order of Array.prototype.sort() without a comparator.
CodeUnitOrder == <<"", "7", "Food", "Other", "Travel", "food">>

\* Object.keys(categories).sort()
SortedCategoryNames(categories) ==
    SelectSeq(CodeUnitOrder, LAMBDA c : MapHas(categories, c))

\* The rows written for one category of a period: its header, its receipts
\* and its subtotal.
LedgerCategoryRows(monthYear, category, categoryReceipts) ==
    <<[kind |-> "category", period |-> monthYear, category |-> category]>>
        \o [i \in DOMAIN categoryReceipts |->
               [kind |-> "record", period |-> monthYear, category |-> category,
                row |-> PdfRecordRow(categoryReceipts[i])]]
        \o <<[kind |-> "subtotal", period |-> monthYear, category |-> category,
              preTax |-> PdfTotalAmount(categoryReceipts) - PdfTotalTax(categoryReceipts),
              total |-> PdfTotalAmount(categoryReceipts),
              tax |-> PdfTotalTax(categoryReceipts)]>>

RECURSIVE LedgerCategories(_, _, _)
LedgerCategories(monthYear, categories, names) ==
    IF names = <<>> THEN <<>>
    ELSE LedgerCategoryRows(monthYear, Head(names), MapGet(categories, Head(names)))
            \o LedgerCategories(monthYear, categories, Tail(names))

\* The sums of a period's subtotal rows.
RECURSIVE LedgerSum(_, _)
LedgerSum(rows, field) ==
    IF rows = <<>> THEN 0
    ELSE (IF Head(rows).kind = "subtotal" THEN Head(rows)[field] ELSE 0)
            + LedgerSum(Tail(rows), field)

\* The rows written for one period: its header, its categories and its total.
LedgerMonthRows(monthYear, categories) ==
    LET rows == LedgerCategories(monthYear, categories, SortedCategoryNames(categories))
    IN  <<[kind |-> "period", period |-> monthYear]>>
            \o rows
            \o <<[kind |-> "periodTotal", period |-> monthYear,
                  preTax |-> LedgerSum(rows, "total") - LedgerSum(rows, "tax"),
                  total |-> LedgerSum(rows, "total"), tax |-> LedgerSum(rows, "tax")]>>

RECURSIVE LedgerMonths(_, _)
LedgerMonths(groupedByMonth, months) ==
    IF months = <<>> THEN <<>>
    ELSE LedgerMonthRows(Head(months), MapGet(groupedByMonth, Head(months)))
            \o LedgerMonths(groupedByMonth, Tail(months))

\* DETAILED EXPENSE LEDGER: the rows in the order they are written.
PdfLedger(receiptsData, zone) ==
    LET groupedByMonth == GroupByMonth(<<>>, receiptsData, zone)
    IN  LedgerMonths(groupedByMonth, SortedMonths(groupedByMonth, zone))

\* --- PDF text
\* x.toFixed(2) and x.toLocaleString('en-US', { minimumFractionDigits: 2,
\* maximumFractionDigits: 2 }): the nearest whole number of cents.
toFixed2(x) ==
    IF x >= 0 THEN (2 * x + RateNum) \div (2 * RateNum)
    ELSE 0 - ((2 * (0 - x) + RateNum) \div (2 * RateNum))

\* x.toLocaleString('en-US', { minimumFractionDigits: 2 }): at most three
\* decimals, the nearest whole number of tenths of a cent.
toLocale3(x) ==
    IF x >= 0 THEN (20 * x + RateNum) \div (2 * RateNum)
    ELSE 0 - ((20 * (0 - x) + RateNum) \div (2 * RateNum))

\* EXECUTIVE SUMMARY as printed, in cents.
PdfCover(receiptsData) ==
    [count |-> Len(receiptsData),
     preTax |-> toFixed2(PdfTotalAmount(receiptsData) - PdfTotalTax(receiptsData)),
     tax |-> toFixed2(PdfTotalTax(receiptsData)),
     total |-> toFixed2(PdfTotalAmount(receiptsData))]

\* EXPENSE BREAKDOWN BY CATEGORY as printed, in tenths of a cent.
PdfPrintedCategoryRows(categoryRows) ==
    [i \in DOMAIN categoryRows |->
        [category |-> categoryRows[i].category, count |-> categoryRows[i].count,
         preTax |-> toLocale3(categoryRows[i].preTax), tax |-> toLocale3(categoryRows[i].tax),
         total |-> toLocale3(categoryRows[i].total)]]

\* The ledger as printed, in cents.
PdfPrintedLedger(ledger) ==
    [p \in DOMAIN ledger |->
        IF ledger[p].kind = "record"
        THEN [kind |-> "record", period |-> ledger[p].period,
              category |-> ledger[p].category, id |-> ledger[p].row.id,
              preTax |-> toFixed2(ledger[p].row.preTax), tax |-> toFixed2(ledger[p].row.tax),
              total |-> toFixed2(ledger[p].row.total)]
        ELSE IF ledger[p].kind \in {"subtotal", "periodTotal"}
        THEN [ledger[p] EXCEPT !.preTax = toFixed2(@), !.tax = toFixed2(@),
                               !.total = toFixed2(@)]
        ELSE ledger[p]]

\* ------------------------------------------------------------ handlers
Idle == [op |-> "idle"]

\* POST /api/receipts: the body is stored as sent, with date: new Date(data.date).
CreateReceipt(Users, Merchants, Dates, Amounts, Taxes, Categories) ==
    /\ response = Idle
    /\ nextId <= MaxReceipts
    /\ \E u \in Users, m \in Merchants, d \in Dates, a \in Amounts, t \in Taxes,
          c \in Categories :
          LET row == NewReceipt(nextId, u, m, d, a, t, c)
          IN  /\ receipts' = Append(receipts, row)
              /\ response' = [op |-> "create", status |-> 201, row |-> row]
    /\ nextId' = nextId + 1
    /\ UNCHANGED <<tz, client>>

\* ListReceipts that leaves the table in the order it read it.
ListReceiptsSortingStore(Queries) ==
    /\ response = Idle
    /\ \E q \in Queries :
          \E rows \in getReceipts(receipts, ListFilters(q), tz) :
              /\ response' = [op |-> "list", status |-> 200, query |-> q, rows |-> rows]
              /\ \E all \in getReceipts(receipts, ListFilters(Filter(Null, Null, Null, Null, Null, Null, Null)), tz) :
                    receipts' = all
    /\ UNCHANGED <<tz, nextId, client>>

\* GET /api/receipts
ListReceipts(Queries) ==
    /\ response = Idle
    /\ \E q \in Queries :
          \E rows \in getReceipts(receipts, ListFilters(q), tz) :
              response' = [op |-> "list", status |-> 200, query |-> q, rows |-> rows]
    /\ UNCHANGED <<tz, receipts, nextId, client>>

\* GET /api/receipts/export-pdf
ExportPdf(Queries) ==
    /\ response = Idle
    /\ \E q \in Queries :
          \E receiptsData \in getReceipts(receipts, ExportFilters(q), tz) :
              response' =
                  [op |-> "export-pdf", status |-> 200, query |-> q,
                   rows |-> receiptsData,
                   totalAmount |-> PdfTotalAmount(receiptsData),
                   totalTax |-> PdfTotalTax(receiptsData),
                   preTaxAmount |-> PdfTotalAmount(receiptsData) - PdfTotalTax(receiptsData),
                   categoryRows |-> PdfCategoryRows(receiptsData),
                   recordRows |-> [i \in DOMAIN receiptsData |-> PdfRecordRow(receiptsData[i])],
                   ledger |-> PdfLedger(receiptsData, tz),
                   cover |-> PdfCover(receiptsData),
                   printedCategoryRows |-> PdfPrintedCategoryRows(PdfCategoryRows(receiptsData)),
                   printedLedger |-> PdfPrintedLedger(PdfLedger(receiptsData, tz))]
    /\ UNCHANGED <<tz, receipts, nextId, client>>

\* GET /api/receipts/export
ExportExcel(Queries) ==
    /\ response = Idle
    /\ \E q \in Queries :
          \E rs \in getReceipts(receipts, ExportFilters(q), tz) :
              LET excelData == ExcelData(rs, tz)
              IN  response' =
                      [op |-> "export", status |-> 200, query |-> q, rows |-> rs,
                       excelData |-> excelData,
                       monthlySummaryData |-> ExcelMonthlySummaryData(excelData),
                       categorySummaryData |-> ExcelCategorySummaryData(excelData)]
    /\ UNCHANGED <<tz, receipts, nextId, client>>

\* GET /api/receipts/summary: a request without year is answered for the
\* year of the server's clock, `now`.
Summary(Users, Years, Clock) ==
    /\ response = Idle
    /\ \E u \in Users, y \in Years, now \in Clock :
          LET year == IF y # Null THEN y[1] ELSE GetFullYear(now, tz)
          IN  \E yearReceipts \in StatsRows(receipts, u, year) :
                  response' =
                      [op |-> "summary", status |-> 200, userId |-> u, year |-> y,
                       rows |-> yearReceipts,
                       stats |-> getReceiptStats(yearReceipts, year, tz)]
    /\ UNCHANGED <<tz, receipts, nextId, client>>

\* The response reaches the client; the server takes the next request.
Deliver ==
    /\ response # Idle
    /\ response' = Idle
    /\ UNCHANGED <<tz, receipts, nextId, client>>

\* The upload modal as mounted: useState("upload"), useState([]),
\* useState(0); nothing pending, no file selected yet, nothing created.
ModalInit ==
    [open |-> FALSE, step |-> "upload", files |-> <<>>, index |-> 0,
     timers |-> 0, loops |-> <<>>, save |-> Null, nextFile |-> 1, created |-> <<>>]

Init(Zones) ==
    /\ tz \in Zones
    /\ receipts = <<>>
    /\ nextId = 1
    /\ response = Idle
    /\ backupFile = Null
    /\ modal = ModalInit

\* PUT /api/receipts/:id.  A body names each field it carries: Null for a
\* field it leaves out, Some(v) for a field sent with value v (for tax, v is
\* Null for a JSON null).
UpdateBody(m, c, u, d, a, t) ==
    [merchantName |-> m, category |-> c, userId |-> u, date |-> d, amount |-> a, tax |-> t]

\* updates: merchantName, category, userId, amount and tax are copied when
\* not undefined, date when truthy.
ApplyUpdates(r, data) ==
    [id |-> r.id,
     userId |-> IF data.userId # Null THEN data.userId[1] ELSE r.userId,
     merchantName |-> IF data.merchantName # Null THEN data.merchantName[1] ELSE r.merchantName,
     date |-> IF data.date # Null THEN data.date[1] ELSE r.date,
     amount |-> IF data.amount # Null THEN data.amount[1] ELSE r.amount,
     tax |-> IF data.tax # Null THEN data.tax[1] ELSE r.tax,
     category |-> IF data.category # Null THEN data.category[1] ELSE r.category]

\* updates.tax = String(data.tax) is the text "null" for a JSON null, which
\* the numeric column refuses; an update without any column is no statement.
UpdateThrows(data) ==
    \/ data.tax # Null /\ data.tax[1] = Null
    \/ \A f \in DOMAIN data : data[f] = Null

\* db.update(receipts).set(updates).where(eq(receipts.id, id)).returning()
updateReceipt(rows, id, data) ==
    [i \in DOMAIN rows |-> IF rows[i].id = id THEN ApplyUpdates(rows[i], data) ELSE rows[i]]

UpdateReceipt(Ids, Bodies) ==
    /\ response = Idle
    /\ \E id \in Ids, data \in Bodies :
          IF UpdateThrows(data)
          THEN /\ response' = [op |-> "update", status |-> 500, id |-> id, body |-> data]
               /\ receipts' = receipts
          ELSE IF \E i \in DOMAIN receipts : receipts[i].id = id
          THEN /\ receipts' = updateReceipt(receipts, id, data)
               /\ response' = [op |-> "update", status |-> 200, id |-> id, body |-> data]
          ELSE /\ response' = [op |-> "update", status |-> 404, id |-> id, body |-> data]
               /\ receipts' = receipts
    /\ UNCHANGED <<tz, nextId, client>>

\* DELETE /api/receipts/:id
deleteReceipt(rows, id) == SelectSeq(rows, LAMBDA r : r.id # id)

DeleteReceipt(Ids) ==
    /\ response = Idle
    /\ \E id \in Ids :
          /\ receipts' = deleteReceipt(receipts, id)
          /\ response' = [op |-> "delete", status |-> 204, id |-> id]
    /\ UNCHANGED <<tz, nextId, client>>

\* GET /api/backup
Backup(Users) ==
    /\ response = Idle
    /\ \E u \in Users :
          \E allReceipts \in getReceipts(receipts, Filter(u, Null, Null, Null, Null, Null, Null), tz) :
              response' = [op |-> "backup", status |-> 200, userId |-> u,
                           receipts |-> allReceipts]
    /\ UNCHANGED <<tz, receipts, nextId, client>>

\* POST /api/restore.  An item of the uploaded array names each field it
\* carries, as an update body does; the ids of a backup are not used.
RestoreItem(m, d, a, t, c, u) ==
    [merchantName |-> m, date |-> d, amount |-> a, tax |-> t, category |-> c, userId |-> u]

\* !receipt.merchantName || !receipt.date || receipt.amount === undefined
RestoreSkips(item) ==
    \/ item.merchantName = Null \/ item.merchantName = Some(<<>>)
    \/ item.date = Null
    \/ item.amount = Null

\* A JSON string that is no numeral, where an item carries one as its amount.
Text(s) == <<"text", s>>

\* storage.createReceipt throws on an amount that is no numeral, which the
\* loop's catch counts as skipped.
CreateReceiptThrows(item) == Len(item.amount) = 2

RestoredReceipt(id, item, userId) ==
    NewReceipt(id,
               IF userId # Null THEN userId[1]
               ELSE IF item.userId # Null THEN item.userId[1] ELSE "user1",
               item.merchantName[1], ParseISOString(item.date[1]), item.amount[1], item.tax,
               IF item.category # Null /\ item.category[1] # "" THEN item.category[1]
               ELSE "Other")

\* for (const receipt of importedReceipts): st is the table, the serial and
\* the two counters.
RECURSIVE RestoreLoop(_, _, _)
RestoreLoop(st, items, userId) ==
    IF items = <<>> THEN st
    ELSE IF RestoreSkips(Head(items)) \/ CreateReceiptThrows(Head(items))
    THEN RestoreLoop([st EXCEPT !.skipped = @ + 1], Tail(items), userId)
    ELSE RestoreLoop([rows |-> Append(st.rows, RestoredReceipt(st.nextId, Head(items), userId)),
                      nextId |-> st.nextId + 1,
                      imported |-> st.imported + 1,
                      skipped |-> st.skipped],
                     Tail(items), userId)

\* The restore with no catch around the single item: the first item that
\* fails to store ends the request with 500.
RestoreWithoutItemCatch(Bodies) ==
    /\ response = Idle
    /\ \E body \in Bodies :
          IF ~body.isArray
          THEN /\ response' = [op |-> "restore", status |-> 400, body |-> body]
               /\ UNCHANGED <<receipts, nextId>>
          ELSE LET items == body.receipts
                   failing == {i \in DOMAIN items :
                                  ~RestoreSkips(items[i]) /\ CreateReceiptThrows(items[i])}
                   upto == IF failing = {} THEN Len(items)
                           ELSE (CHOOSE i \in failing : \A j \in failing : i <= j) - 1
                   st == RestoreLoop([rows |-> receipts, nextId |-> nextId,
                                      imported |-> 0, skipped |-> 0],
                                     SubSeq(items, 1, upto), body.userId)
               IN  /\ st.nextId <= MaxReceipts + 1
                   /\ receipts' = st.rows
                   /\ nextId' = st.nextId
                   /\ response' =
                         IF failing = {}
                         THEN [op |-> "restore", status |-> 200, body |-> body,
                               imported |-> st.imported, skipped |-> st.skipped]
                         ELSE [op |-> "restore", status |-> 500, body |-> body]
    /\ UNCHANGED <<tz, client>>

\* A body is [isArray, receipts, userId]; a body whose receipts is no array
\* is answered 400.
Restore(Bodies) ==
    /\ response = Idle
    /\ \E body \in Bodies :
          IF ~body.isArray
          THEN /\ response' = [op |-> "restore", status |-> 400, body |-> body]
               /\ UNCHANGED <<receipts, nextId>>
          ELSE LET st == RestoreLoop([rows |-> receipts, nextId |-> nextId,
                                      imported |-> 0, skipped |-> 0],
                                     body.receipts, body.userId)
               IN  /\ st.nextId <= MaxReceipts + 1
                   /\ receipts' = st.rows
                   /\ nextId' = st.nextId
                   /\ response' = [op |-> "restore", status |-> 200, body |-> body,
                                   imported |-> st.imported, skipped |-> st.skipped]
    /\ UNCHANGED <<tz, client>>

\* ------------------------------------------------------------ inputs
\* UTC, and a zone five hours behind it.
TimeZones == {0, 5}
Star == <<"S", "t", "a", "r">>
AtNoon(t) == t + 12

\* --- the date filters
FilterUsers == {"user1", "user2"}
FilterDates ==
    {NewDateISO(2023, 12, 31), NewDateISO(2024, 1, 15), NewDateISO(2024, 1, 31),
     AtNoon(NewDateISO(2024, 1, 31)), NewDateISO(2024, 2, 1),
     AtNoon(NewDateISO(2024, 12, 31))}
FilterQueries ==
    {Filter(u, s, e, y, mo, Null, Null) :
        u \in {Null, Some("user1")},
        s \in {Null, Some(<<2024, 1, 15>>)},
        e \in {Null, Some(<<2024, 1, 31>>)},
        y \in {Null, Some(2024)},
        mo \in {Null, Some(1)}}
FilterClock == {AtNoon(NewDateISO(2024, 6, 15))}

InitFilter == Init(TimeZones)
CreateFilter == CreateReceipt(FilterUsers, {Star}, FilterDates, {5000}, {Null}, {"Food"})
ListFilter == ListReceipts(FilterQueries)
ExportPdfFilter == ExportPdf(FilterQueries)
ExportExcelFilter == ExportExcel(FilterQueries)
SummaryFilter == Summary({Null, Some("user1")}, {Some(2024)}, FilterClock)
NextFilter ==
    \/ CreateFilter
    \/ ListFilter
    \/ ExportPdfFilter
    \/ ExportExcelFilter
    \/ SummaryFilter
    \/ Deliver
SpecFilter == InitFilter /\ [][NextFilter]_vars

\* ------------------------------------------------------------ claims: selection
\* The calendar day (UTC day number) of an instant, and of a filter's date.
CalendarDay(t) == t \div 24
FilterDay(s) == ParseDateString(s) \div 24

OwnerMatches(r, q) == q.userId # Null => r.userId = q.userId[1]
CategoryMatches(r, q) == q.category # Null => r.category = q.category[1]

IsExport == response.op \in {"export-pdf", "export"}
IsList == response.op = "list"

\* C1: for every filter, exportSpreadsheet and exportDocument render exactly
\* the record set the list query returns for the same filter; a filter with
\* startDate and/or endDate restricts the exported records to that range.
C1_ExportsRenderListSelection ==
    IsExport =>
        /\ response.rows \in getReceipts(receipts, ListFilters(response.query), tz)
        /\ response.op = "export-pdf" =>
              {response.recordRows[i].id : i \in DOMAIN response.recordRows}
                  = {r.id : r \in {x \in Range(receipts) :
                                      Selected(x, ListFilters(response.query), tz)}}
        /\ response.op = "export" =>
              Len(response.excelData)
                  = Cardinality({x \in Range(receipts) :
                                    Selected(x, ListFilters(response.query), tz)})

\* C3: with only startDate the list holds every record dated on or after it,
\* with only endDate every record dated on or before it, with both exactly
\* the records between them, a record dated on a boundary day included.
C3_DateRangeIsInclusiveOfBoundaryDays ==
    (IsList /\ HasDateRange(response.query)) =>
        LET q == response.query
        IN  Range(response.rows) =
                {r \in Range(receipts) :
                    /\ OwnerMatches(r, q)
                    /\ CategoryMatches(r, q)
                    /\ (q.startDate # Null => CalendarDay(r.date) >= FilterDay(q.startDate[1]))
                    /\ (q.endDate # Null => CalendarDay(r.date) <= FilterDay(q.endDate[1]))}

\* C4: with no date range, year Y and month M select exactly the records
\* dated from the first through the last day of that month, year Y alone
\* exactly the records dated Jan 1 through Dec 31 of Y; getReceiptStats for
\* year Y aggregates that same full-year set.
InCalendarYear(r, y) == UTCYear(r.date) = y
InCalendarMonth(r, y, m) == UTCYear(r.date) = y /\ UTCMonth(r.date) = m

C4_YearAndMonthSelectWholePeriod ==
    /\ (IsList /\ ~HasDateRange(response.query) /\ response.query.year # Null) =>
          LET q == response.query
          IN  Range(response.rows) =
                  {r \in Range(receipts) :
                      /\ OwnerMatches(r, q)
                      /\ CategoryMatches(r, q)
                      /\ IF q.month # Null
                         THEN InCalendarMonth(r, q.year[1], q.month[1])
                         ELSE InCalendarYear(r, q.year[1])}
    /\ (response.op = "summary" /\ response.year # Null) =>
          Range(response.rows) =
              {r \in Range(receipts) :
                  /\ (response.userId # Null => r.userId = response.userId[1])
                  /\ InCalendarYear(r, response.year[1])}

\* C5: whenever startDate or endDate is present, getReceipts ignores year and
\* month: the result is that of the filter with year and month removed.
WithoutYearMonth(q) == [q EXCEPT !.year = Null, !.month = Null]

C5_DateRangeOverridesYearMonth ==
    (IsList /\ HasDateRange(response.query)) =>
        response.rows \in getReceipts(receipts, WithoutYearMonth(ListFilters(response.query)), tz)

\* A list answered for a range with year and month also given, holding a
\* record that lies outside that year.
C5_Witness ==
    /\ IsList
    /\ HasDateRange(response.query)
    /\ response.query.year # Null
    /\ response.query.month # Null
    /\ \E i \in DOMAIN response.rows :
          ~InCalendarYear(response.rows[i], response.query.year[1])

\* ------------------------------------------------------------ claims: search
\* --- the search filter
LowerStar == <<"s", "t", "a", "r">>
SearchMerchants == {Star, LowerStar, <<"a", "b">>}
SearchQueries ==
    {Filter(Null, Null, Null, Null, Null, c, q) :
        c \in {Null, Some("Food")},
        q \in {Null, Some(LowerStar), Some(<<"S", "t">>), Some(<<"_">>), Some(<<"%">>)}}

InitSearch == Init({0})
CreateSearch ==
    CreateReceipt({"user1"}, SearchMerchants, {NewDateISO(2024, 1, 15)}, {5000}, {Null},
                  {"Food", "Travel"})
ListSearch == ListReceipts(SearchQueries)
NextSearch ==
    \/ CreateSearch
    \/ ListSearch
    \/ Deliver
SpecSearch == InitSearch /\ [][NextSearch]_vars

\* The lower-case form of a character, and of a text.
LowerChar(c) == IF c = "S" THEN "s" ELSE IF c = "T" THEN "t" ELSE c
LowerText(t) == [i \in DOMAIN t |-> LowerChar(t[i])]

\* s occurs in text as a run of consecutive characters.
IsSubstring(s, text) ==
    \E i \in 0 .. (Len(text) - Len(s)) : SubSeq(text, i + 1, i + Len(s)) = s

ContainsIgnoringCase(text, s) == IsSubstring(LowerText(s), LowerText(text))

\* C6: with filter.search set, getReceipts keeps exactly the records whose
\* merchant name contains the search string as a case-insensitive substring,
\* the search string being matched literally.
C6_SearchIsCaseInsensitiveSubstring ==
    (IsList /\ response.query.search # Null) =>
        Range(response.rows) =
            {r \in Range(receipts) :
                /\ CategoryMatches(r, response.query)
                /\ ContainsIgnoringCase(r.merchantName, response.query.search[1])}

\* ------------------------------------------------------------ claims: summary
\* --- the year summary and the exports' tax
SummaryDates == {NewDateISO(2024, 1, 1), NewDateISO(2024, 2, 10)}
AllRecords == Filter(Null, Null, Null, Null, Null, Null, Null)

InitSummary == Init(TimeZones)
CreateSummary ==
    CreateReceipt({"user1"}, {Star}, SummaryDates, {5000, 10500},
                  {Null, Some(0), Some(1000)}, {"Food", "Travel"})
SummarySummary == Summary({Null}, {Some(2024)}, FilterClock)
ExportPdfSummary == ExportPdf({AllRecords})
ExportExcelSummary == ExportExcel({AllRecords})
NextSummary ==
    \/ CreateSummary
    \/ SummarySummary
    \/ ExportPdfSummary
    \/ ExportExcelSummary
    \/ Deliver
SpecSummary == InitSummary /\ [][NextSummary]_vars

IsSummary == response.op = "summary"

\* The sums of the total and of the tax fields of a tuple of buckets.
RECURSIVE SumOfTotals(_)
SumOfTotals(s) == IF s = <<>> THEN 0 ELSE Head(s).total + SumOfTotals(Tail(s))

RECURSIVE SumOfTaxes(_)
SumOfTaxes(s) == IF s = <<>> THEN 0 ELSE Head(s).tax + SumOfTaxes(Tail(s))

RECURSIVE SumOfCategoryTotals(_)
SumOfCategoryTotals(mcb) ==
    IF mcb = <<>> THEN 0
    ELSE SumOfTotals(Head(mcb).categories) + SumOfCategoryTotals(Tail(mcb))

RECURSIVE SumOfCategoryTaxes(_)
SumOfCategoryTaxes(mcb) ==
    IF mcb = <<>> THEN 0
    ELSE SumOfTaxes(Head(mcb).categories) + SumOfCategoryTaxes(Tail(mcb))

\* C2: for every record set of a year summary, the monthly totals, the
\* category totals and the monthly category totals each sum to totalExpenses,
\* and their tax fields each sum to totalTax.
C2_BreakdownsSumToTotals ==
    IsSummary =>
        LET st == response.stats
        IN  /\ SumOfTotals(st.monthlyBreakdown) = st.totalExpenses
            /\ SumOfTotals(st.categoryBreakdown) = st.totalExpenses
            /\ SumOfCategoryTotals(st.monthlyCategoryBreakdown) = st.totalExpenses
            /\ SumOfTaxes(st.monthlyBreakdown) = st.totalTax
            /\ SumOfTaxes(st.categoryBreakdown) = st.totalTax
            /\ SumOfCategoryTaxes(st.monthlyCategoryBreakdown) = st.totalTax

\* A summary of two records of one category in different months, one of them
\* with a derived tax.
C2_Witness ==
    /\ IsSummary
    /\ Len(response.rows) = 2
    /\ response.rows[1].category = response.rows[2].category
    /\ response.rows[1].date # response.rows[2].date
    /\ response.rows[1].tax = Null
    /\ response.rows[2].tax # Null
    /\ response.stats.totalTax > 0

\* The records of a tuple that are dated, as entered, in month m.
RowsOfMonth(rs, m) == SelectSeq(rs, LAMBDA r : UTCMonth(r.date) = m)

\* C7: for every year and record set, monthlyBreakdown and
\* monthlyCategoryBreakdown have exactly 12 entries, January..December in
\* order, an empty month carries total 0 and tax 0, and every aggregated
\* record is accumulated into the bucket of its own calendar month.
C7_TwelveMonthsEachWithItsOwnRecords ==
    IsSummary =>
        LET st == response.stats
        IN  /\ Len(st.monthlyBreakdown) = 12
            /\ Len(st.monthlyCategoryBreakdown) = 12
            /\ \A m \in 1 .. 12 :
                  /\ st.monthlyBreakdown[m].month = monthNames[m]
                  /\ st.monthlyCategoryBreakdown[m].month = monthNames[m]
                  /\ st.monthlyBreakdown[m].total = SumAmount(RowsOfMonth(response.rows, m))
                  /\ st.monthlyBreakdown[m].tax = SumTax(RowsOfMonth(response.rows, m))
                  /\ SumOfTotals(st.monthlyCategoryBreakdown[m].categories)
                        = SumAmount(RowsOfMonth(response.rows, m))

\* C8: the summary's categoryBreakdown is ordered non-increasing by total,
\* equal totals in first-seen order, whatever order the records are read in
\* (Food 105.00 before Travel 50.00).
FirstSeen(c, rs) == CHOOSE i \in DOMAIN rs : rs[i].category = c /\ \A j \in 1 .. (i - 1) : rs[j].category # c

C8_CategoryBreakdownSortedByTotal ==
    IsSummary =>
        LET cb == response.stats.categoryBreakdown
        IN  \A i, j \in DOMAIN cb :
                i < j =>
                    \/ cb[i].total > cb[j].total
                    \/ /\ cb[i].total = cb[j].total
                       /\ FirstSeen(cb[i].category, response.rows)
                            < FirstSeen(cb[j].category, response.rows)

\* C10: for every record whose stored tax is present, a stored 0.00
\* included, the tax used by the summary, the spreadsheet export and the PDF
\* export is the stored tax, never the 5% derivation.
RECURSIVE SumStoredTax(_)
SumStoredTax(rs) ==
    IF rs = <<>> THEN 0 ELSE Number(Head(rs).tax[1]) + SumStoredTax(Tail(rs))

AllTaxStored(rs) == \A i \in DOMAIN rs : rs[i].tax # Null
RowsOfCategory(rs, c) == SelectSeq(rs, LAMBDA r : r.category = c)

C10_StoredTaxIsUsedUnchanged ==
    /\ (IsSummary /\ AllTaxStored(response.rows)) =>
          /\ response.stats.totalTax = SumStoredTax(response.rows)
          /\ \A i \in DOMAIN response.stats.categoryBreakdown :
                response.stats.categoryBreakdown[i].tax
                    = SumStoredTax(RowsOfCategory(response.rows,
                                                  response.stats.categoryBreakdown[i].category))
    /\ response.op = "export-pdf" =>
          \A i \in DOMAIN response.rows :
              response.rows[i].tax # Null =>
                  /\ response.recordRows[i].tax = Number(response.rows[i].tax[1])
                  /\ response.recordRows[i].id = response.rows[i].id
    /\ response.op = "export" =>
          \A i \in DOMAIN response.rows :
              response.rows[i].tax # Null =>
                  response.excelData[i].Tax = Number(response.rows[i].tax[1])
    /\ (IsExport /\ AllTaxStored(response.rows)) =>
          \A i \in DOMAIN (IF response.op = "export" THEN response.categorySummaryData
                           ELSE response.categoryRows) :
              LET row == (IF response.op = "export" THEN response.categorySummaryData
                          ELSE response.categoryRows)[i]
              IN  row.tax = SumStoredTax(RowsOfCategory(response.rows, row.category))

\* A workbook of two records, one stored with tax 0.00 and one with tax 10.00.
C10_Witness ==
    /\ response.op = "export"
    /\ Len(response.rows) = 2
    /\ response.rows[1].tax = Some(0)
    /\ response.rows[1].amount > 0
    /\ response.rows[2].tax = Some(1000)

\* ------------------------------------------------------------ claims: category order
\* --- categories, one of them named by a number as the free-text input allows
InitCategories == Init({0})
CreateCategories ==
    CreateReceipt({"user1"}, {Star}, {NewDateISO(2024, 1, 15)}, {5000, 10500},
                  {Null}, {"Food", "Travel", "7"})
SummaryCategories == Summary({Null}, {Some(2024)}, FilterClock)
ExportPdfCategories == ExportPdf({AllRecords})
ExportExcelCategories == ExportExcel({AllRecords})
NextCategories ==
    \/ CreateCategories
    \/ SummaryCategories
    \/ ExportPdfCategories
    \/ ExportExcelCategories
    \/ Deliver
SpecCategories == InitCategories /\ [][NextCategories]_vars

\* Non-increasing by total, equal totals in the order the categories are
\* first seen in the records rs.
SortedTiesFirstSeen(cats, rs) ==
    \A i, j \in DOMAIN cats :
        i < j =>
            \/ cats[i].total > cats[j].total
            \/ /\ cats[i].total = cats[j].total
               /\ FirstSeen(cats[i].category, rs) < FirstSeen(cats[j].category, rs)

\* C9: the PDF category table, the workbook's Category Summary sheet and the
\* dashboard's Top Category order categories by total descending, categories
\* of equal total staying in first-seen order.
C9_CategoryTablesSortedTiesFirstSeen ==
    /\ response.op = "export-pdf" =>
          SortedTiesFirstSeen(response.categoryRows, response.rows)
    /\ response.op = "export" =>
          SortedTiesFirstSeen(response.categorySummaryData, response.rows)
    /\ (IsSummary /\ response.rows # <<>>) =>
          LET top == StatsCardsTopCategory(response.stats.categoryBreakdown)[1]
          IN  \A c \in Range(response.stats.categoryBreakdown) :
                  \/ c = top
                  \/ top.total > c.total
                  \/ /\ top.total = c.total
                     /\ FirstSeen(top.category, response.rows)
                          < FirstSeen(c.category, response.rows)

\* ------------------------------------------------------------ claims: tax and totals
\* --- amounts whose twenty-first part is and is not a whole number of cents
InitTax == Init({0})
CreateTax ==
    CreateReceipt({"user1"}, {Star}, {NewDateISO(2024, 1, 15)},
                  {0, 5000, 10000, 10500, -10500}, {Null, Some(1000)}, {"Food", "Travel"})
SummaryTax == Summary({Null}, {Some(2024)}, FilterClock)
ExportPdfTax == ExportPdf({AllRecords})
ExportExcelTax == ExportExcel({AllRecords})
NextTax ==
    \/ CreateTax
    \/ SummaryTax
    \/ ExportPdfTax
    \/ ExportExcelTax
    \/ Deliver
SpecTax == InitTax /\ [][NextTax]_vars

\* A value in units of 1/21 cent rounded to whole cents, halves away from
\* zero (no derived tax is an exact half: 21 is odd).
RoundToCents(u) ==
    IF u >= 0 THEN (2 * u + RateNum) \div (2 * RateNum)
    ELSE 0 - ((2 * (0 - u) + RateNum) \div (2 * RateNum))

\* amount - amount / 1.05 for an amount in cents, in units of 1/21 cent:
\* 21 * amount - 20 * amount.
ExactDerivedTax(amount) == RateNum * amount - RateDen * amount

\* round(amount - amount / 1.05, 2), in units of 1/21 cent.
RoundedDerivedTax(amount) == Number(RoundToCents(ExactDerivedTax(amount)))

\* C11: for every record with no stored tax, the tax the server uses is
\* round(amount - amount/1.05, 2) and the pre-tax is the amount less that
\* (100.00 gives 4.76 and 95.24, 0 gives 0, a negative amount is derived
\* without clamping).
C11_DerivedTaxIsRoundedToCents ==
    /\ RoundToCents(ExactDerivedTax(10000)) = 476
    /\ RoundToCents(ExactDerivedTax(0)) = 0
    /\ response.op = "export-pdf" =>
          \A i \in DOMAIN response.rows :
              response.rows[i].tax = Null =>
                  /\ response.recordRows[i].tax = RoundedDerivedTax(response.rows[i].amount)
                  /\ response.recordRows[i].preTax
                        = Number(response.rows[i].amount)
                            - RoundedDerivedTax(response.rows[i].amount)
    /\ response.op = "export" =>
          \A i \in DOMAIN response.rows :
              response.rows[i].tax = Null =>
                  /\ response.excelData[i].Tax = RoundedDerivedTax(response.rows[i].amount)
                  /\ response.excelData[i].PreTax
                        = Number(response.rows[i].amount)
                            - RoundedDerivedTax(response.rows[i].amount)
    /\ (IsSummary /\ Len(response.rows) = 1 /\ response.rows[1].tax = Null) =>
          response.stats.totalTax = RoundedDerivedTax(response.rows[1].amount)

\* The tax of a record as the specification words it: the stored tax where
\* present, amount - amount / 1.05 otherwise.
TaxOfRecord(r) ==
    IF r.tax # Null THEN Number(r.tax[1]) ELSE Number(r.amount) - (Number(r.amount) * 20) \div 21

RECURSIVE SumOfAmounts(_)
SumOfAmounts(rs) ==
    IF rs = <<>> THEN 0 ELSE Number(Head(rs).amount) + SumOfAmounts(Tail(rs))

RECURSIVE SumOfRecordTaxes(_)
SumOfRecordTaxes(rs) ==
    IF rs = <<>> THEN 0 ELSE TaxOfRecord(Head(rs)) + SumOfRecordTaxes(Tail(rs))

\* C12: for every record set, the grand total is the sum of the records'
\* amounts and the total tax is the sum of the stored tax where present and
\* of the derived tax otherwise, in the summary and in the PDF export.
C12_TotalsAreSumsOverRecords ==
    /\ IsSummary =>
          /\ response.stats.totalExpenses = SumOfAmounts(response.rows)
          /\ response.stats.totalTax = SumOfRecordTaxes(response.rows)
    /\ response.op = "export-pdf" =>
          /\ response.totalAmount = SumOfAmounts(response.rows)
          /\ response.totalTax = SumOfRecordTaxes(response.rows)

\* A(105.00, no tax) and B(50.00, tax 10.00): 155.00 and 15.00.
C12_Witness ==
    /\ IsSummary
    /\ Len(response.rows) = 2
    /\ \E i, j \in 1 .. 2 :
          /\ response.rows[i].amount = 10500 /\ response.rows[i].tax = Null
          /\ response.rows[j].amount = 5000 /\ response.rows[j].tax = Some(1000)
    /\ response.stats.totalExpenses = Number(15500)
    /\ response.stats.totalTax = Number(1500)

\* ------------------------------------------------------------ claims: one record set
\* --- records of two years, requests with and without a year
YearsDates == {NewDateISO(2023, 12, 15), NewDateISO(2024, 1, 15)}
YearsQueries ==
    {Filter(Null, Null, Null, y, Null, Null, Null) : y \in {Null, Some(2024)}}

InitYears == Init({0})
CreateYears ==
    CreateReceipt({"user1"}, {Star}, YearsDates, {5000, 10500}, {Null, Some(1000)},
                  {"Food", "Travel"})
SummaryYears == Summary({Null}, {Null, Some(2024)}, FilterClock)
ExportPdfYears == ExportPdf(YearsQueries)
ExportExcelYears == ExportExcel(YearsQueries)
NextYears ==
    \/ CreateYears
    \/ SummaryYears
    \/ ExportPdfYears
    \/ ExportExcelYears
    \/ Deliver
SpecYears == InitYears /\ [][NextYears]_vars

\* The filter a summary request carries: its userId and its year.
SummaryQuery == Filter(response.userId, Null, Null, response.year, Null, Null, Null)

\* C13: given the same filter, the summary API and the two exports work on
\* the same record set and give the same grand total and total tax, also
\* when the filter has no year.
C13_SummaryAndExportsShareRecordSet ==
    IsSummary =>
        \A exported \in getReceipts(receipts, ExportFilters(SummaryQuery), tz) :
            /\ Range(response.rows) = Range(exported)
            /\ response.stats.totalExpenses = PdfTotalAmount(exported)
            /\ response.stats.totalTax = PdfTotalTax(exported)
            /\ response.stats.totalExpenses
                  = SumOfTotals([i \in DOMAIN exported |-> [total |-> ExcelRow(exported[i], tz).TotalPaid]])

\* ------------------------------------------------------------ claims: the record store
\* --- every request of the API on a small store
StoreDate == NewDateISO(2024, 1, 15)
StoreIds == 1 .. 2
StoreBodies ==
    {UpdateBody(Null, c, Null, Null, a, t) :
        c \in {Null, Some("")}, a \in {Null, Some(10500)},
        t \in {Null, Some(Null), Some(Some(0))}}
        \ {UpdateBody(Null, Null, Null, Null, Null, Null)}
StoreBackups ==
    {[isArray |-> FALSE, receipts |-> <<>>, userId |-> Null],
     [isArray |-> TRUE, userId |-> Null,
      receipts |-> <<RestoreItem(Some(Star), Some(ToISOString(StoreDate)), Null, Null, Some("Food"), Null),
                     RestoreItem(Some(Star), Some(ToISOString(StoreDate)), Some(-5000), Null, Some(""),
                                 Some("user2"))>>]}
StoreQueries ==
    {AllRecords,
     Filter(Null, Some(<<2024, 1, 31>>), Some(<<2024, 1, 15>>), Null, Null, Null, Null)}

InitStore == Init({0})
CreateStore ==
    CreateReceipt({"user1"}, {Star}, {StoreDate}, {5000, -5000}, {Null, Some(9000)}, {"Food"})
UpdateStore == UpdateReceipt(StoreIds, StoreBodies)
DeleteStore == DeleteReceipt(StoreIds)
RestoreStore == Restore(StoreBackups)
BackupStore == Backup({Null})
ListStore == ListReceipts(StoreQueries)
SummaryStore == Summary({Null}, {Some(2024)}, FilterClock)
ExportPdfStore == ExportPdf({AllRecords})
ExportExcelStore == ExportExcel({AllRecords})
NextStore ==
    \/ CreateStore
    \/ UpdateStore
    \/ DeleteStore
    \/ RestoreStore
    \/ BackupStore
    \/ ListStore
    \/ SummaryStore
    \/ ExportPdfStore
    \/ ExportExcelStore
    \/ Deliver
SpecStore == InitStore /\ [][NextStore]_vars

\* C14: after any sequence of create, update, delete and restore requests,
\* every stored record has amount >= 0, 0 <= tax <= amount when tax is
\* present, and a non-empty category (every date of the model is a valid
\* calendar date).
C14_StoredRecordsAreValid ==
    \A i \in DOMAIN receipts :
        /\ receipts[i].amount >= 0
        /\ receipts[i].tax # Null =>
              (0 <= receipts[i].tax[1] /\ receipts[i].tax[1] <= receipts[i].amount)
        /\ receipts[i].category # ""

\* C15: a list request whose date range is impossible (startDate after
\* endDate) is rejected with an error status and not answered with a
\* successful result.
ImpossibleRange(q) ==
    /\ q.startDate # Null
    /\ q.endDate # Null
    /\ ParseDateString(q.startDate[1]) > ParseDateString(q.endDate[1])

C15_ImpossibleRangeIsRejected ==
    (IsList /\ ImpossibleRange(response.query)) => response.status >= 400

\* ------------------------------------------------------------ claims: empty results
\* C16: when the filter matches no record, the summary and both exports
\* answer without error: totalExpenses and totalTax are 0, categoryBreakdown
\* is empty, the monthly breakdowns keep their twelve zero buckets, and the
\* exports carry grand totals of 0 and no record.
C16_EmptyResultIsWellFormed ==
    /\ (IsSummary /\ response.rows = <<>>) =>
          /\ response.status = 200
          /\ response.stats.totalExpenses = 0
          /\ response.stats.totalTax = 0
          /\ response.stats.categoryBreakdown = <<>>
          /\ Len(response.stats.monthlyBreakdown) = 12
          /\ Len(response.stats.monthlyCategoryBreakdown) = 12
          /\ \A m \in 1 .. 12 :
                /\ response.stats.monthlyBreakdown[m].total = 0
                /\ response.stats.monthlyBreakdown[m].tax = 0
                /\ response.stats.monthlyCategoryBreakdown[m].categories = <<>>
    /\ (response.op = "export-pdf" /\ response.rows = <<>>) =>
          /\ response.status = 200
          /\ response.totalAmount = 0
          /\ response.totalTax = 0
          /\ response.preTaxAmount = 0
          /\ response.recordRows = <<>>
          /\ response.categoryRows = <<>>
    /\ (response.op = "export" /\ response.rows = <<>>) =>
          /\ response.status = 200
          /\ response.excelData = <<>>
          /\ response.monthlySummaryData = <<>>
          /\ response.categorySummaryData = <<>>

\* A summary of a year in which the store, not empty, has no record.
C16_Witness ==
    /\ IsSummary
    /\ response.rows = <<>>
    /\ receipts # <<>>

\* ------------------------------------------------------------ claims: frame
ReadRequests == {"list", "summary", "export", "export-pdf", "backup"}

\* C17: a list, summary, spreadsheet export, PDF export or backup request
\* leaves the record store as it was: the same records with the same fields.
C17_ReadRequestsLeaveStoreUnchanged ==
    [][response'.op \in ReadRequests => receipts' = receipts]_vars

\* A backup answered from a store that holds records.
C17_Witness ==
    /\ response.op = "backup"
    /\ Len(receipts) = 2
    /\ Len(response.receipts) = 2

\* The record r with exactly the fields a body carries replaced.
WithFieldsOf(r, data) ==
    [f \in DOMAIN r |-> IF f \in DOMAIN data /\ data[f] # Null THEN data[f][1] ELSE r[f]]

\* C18: an update request replaces exactly the fields present in the
\* request, leaves the record's other fields and every other record
\* unchanged, and answers 404 without changing anything when the id does
\* not exist.
C18_UpdateReplacesExactlyTheFieldsSent ==
    [][response'.op = "update" =>
          IF \E i \in DOMAIN receipts : receipts[i].id = response'.id
          THEN /\ DOMAIN receipts' = DOMAIN receipts
               /\ \A i \in DOMAIN receipts :
                     receipts'[i] = IF receipts[i].id = response'.id
                                    THEN WithFieldsOf(receipts[i], response'.body)
                                    ELSE receipts[i]
          ELSE /\ response'.status = 404
               /\ receipts' = receipts]_vars

\* ------------------------------------------------------------ claims: order
\* C19: the list API returns the selected records sorted by transaction
\* date, latest first, for every filter.
C19_ListIsSortedByDateDescending ==
    IsList =>
        \A i, j \in DOMAIN response.rows :
            i < j => response.rows[i].date >= response.rows[j].date

\* A list of two records in which the record stored first is dated earlier
\* and comes second.
C19_Witness ==
    /\ IsList
    /\ Len(response.rows) = 2
    /\ response.rows[1].date > response.rows[2].date
    /\ response.rows[1].id > response.rows[2].id

\* --- the PDF ledger: two years, categories in both letter cases
InitLedger == Init(TimeZones)
CreateLedger ==
    CreateReceipt({"user1"}, {Star}, {NewDateISO(2023, 12, 15), NewDateISO(2024, 1, 15)},
                  {5000}, {Null}, {"Food", "Travel", "food"})
ExportPdfLedger == ExportPdf({AllRecords})
NextLedger ==
    \/ CreateLedger
    \/ ExportPdfLedger
    \/ Deliver
SpecLedger == InitLedger /\ [][NextLedger]_vars

\* A period <<month name, year>> as a number of months.
PeriodNumber(p) == 12 * p[2] + (CHOOSE i \in 1 .. 12 : monthNames[i] = p[1])

\* The place of a category name in the alphabet, letter case aside.
AlphabetRank ==
    ("7" :> 1) @@ ("Food" :> 2) @@ ("food" :> 2) @@ ("Other" :> 3) @@ ("Travel" :> 4)

\* The place of the record with this id in the selection.
SelectionIndex(id) == CHOOSE i \in DOMAIN response.rows : response.rows[i].id = id

\* C20: the PDF ledger writes the periods oldest first, also across years,
\* the categories of a period in alphabetical order and the records of a
\* category in the order selected; every selected record is written exactly
\* once, the records of a category are followed by its subtotal row and the
\* last category of a period by the period's total row.
C20_LedgerOrder ==
    response.op = "export-pdf" =>
        LET ledger == response.ledger
            Records == {p \in DOMAIN ledger : ledger[p].kind = "record"}
        IN  /\ \A i \in DOMAIN response.rows :
                  Cardinality({p \in Records : ledger[p].row.id = response.rows[i].id}) = 1
            /\ Cardinality(Records) = Len(response.rows)
            /\ \A p, q \in DOMAIN ledger :
                  (p < q /\ ledger[p].kind = "period" /\ ledger[q].kind = "period") =>
                      PeriodNumber(ledger[p].period) < PeriodNumber(ledger[q].period)
            /\ \A p, q \in DOMAIN ledger :
                  (/\ p < q
                   /\ ledger[p].kind = "category"
                   /\ ledger[q].kind = "category"
                   /\ ledger[p].period = ledger[q].period) =>
                      AlphabetRank[ledger[p].category] <= AlphabetRank[ledger[q].category]
            /\ \A p, q \in Records :
                  (/\ p < q
                   /\ ledger[p].period = ledger[q].period
                   /\ ledger[p].category = ledger[q].category) =>
                      SelectionIndex(ledger[p].row.id) < SelectionIndex(ledger[q].row.id)
            /\ \A p \in DOMAIN ledger :
                  /\ ledger[p].kind \in {"period", "subtotal"} =>
                        /\ p < Len(ledger)
                        /\ ledger[p + 1].kind = "category"
                              \/ (ledger[p].kind = "subtotal" /\ ledger[p + 1].kind = "periodTotal")
                        /\ ledger[p + 1].period = ledger[p].period
                  /\ ledger[p].kind \in {"category", "record"} =>
                        /\ p < Len(ledger)
                        /\ ledger[p + 1].kind \in {"record", "subtotal"}
                        /\ ledger[p].kind = "category" => ledger[p + 1].kind = "record"
                        /\ ledger[p + 1].period = ledger[p].period
                        /\ ledger[p + 1].category = ledger[p].category
                  /\ ledger[p].kind = "periodTotal" =>
                        (p = Len(ledger) \/ ledger[p + 1].kind = "period")

\* ------------------------------------------------------------ claims: the exports' rows
\* pre-tax + tax = total, as computed and as printed to the cent.
Balanced(preTax, tax, total) ==
    /\ preTax + tax = total
    /\ Number(RoundToCents(preTax)) + Number(RoundToCents(tax)) = total

\* C21: in every row of every output (workbook detail rows and summary
\* sheets, PDF record rows, category subtotals, period totals, cover and
\* category-breakdown rows) pre-tax + tax = total, and the total of a
\* record's row is its stored tax-inclusive amount.
C21_PreTaxPlusTaxIsTotal ==
    /\ response.op = "export-pdf" =>
          /\ Balanced(response.preTaxAmount, response.totalTax, response.totalAmount)
          /\ \A i \in DOMAIN response.recordRows :
                /\ Balanced(response.recordRows[i].preTax, response.recordRows[i].tax,
                            response.recordRows[i].total)
                /\ response.recordRows[i].total = Number(response.rows[i].amount)
          /\ \A i \in DOMAIN response.categoryRows :
                Balanced(response.categoryRows[i].preTax, response.categoryRows[i].tax,
                         response.categoryRows[i].total)
          /\ \A p \in DOMAIN response.ledger :
                /\ response.ledger[p].kind = "record" =>
                      Balanced(response.ledger[p].row.preTax, response.ledger[p].row.tax,
                               response.ledger[p].row.total)
                /\ response.ledger[p].kind \in {"subtotal", "periodTotal"} =>
                      Balanced(response.ledger[p].preTax, response.ledger[p].tax,
                               response.ledger[p].total)
    /\ response.op = "export" =>
          /\ \A i \in DOMAIN response.excelData :
                /\ Balanced(response.excelData[i].PreTax, response.excelData[i].Tax,
                            response.excelData[i].TotalPaid)
                /\ response.excelData[i].TotalPaid = Number(response.rows[i].amount)
          /\ \A i \in DOMAIN response.monthlySummaryData :
                Balanced(response.monthlySummaryData[i].PreTax,
                         response.monthlySummaryData[i].Tax,
                         response.monthlySummaryData[i].TotalPaid)
          /\ \A i \in DOMAIN response.categorySummaryData :
                Balanced(response.categorySummaryData[i].preTax,
                         response.categorySummaryData[i].tax,
                         response.categorySummaryData[i].total)

\* A PDF of two records, one with a stored tax and one whose derived tax is
\* no whole number of cents.
C21_Witness ==
    /\ response.op = "export-pdf"
    /\ Len(response.rows) = 2
    /\ \E i, j \in 1 .. 2 :
          /\ response.rows[i].tax = Some(1000)
          /\ response.rows[j].tax = Null /\ response.rows[j].amount = 5000

\* --- amounts whose derived tax is no whole number of cents, in two months
InitCents == Init({0})
CreateCents ==
    CreateReceipt({"user1"}, {Star}, {NewDateISO(2024, 1, 15), NewDateISO(2024, 2, 10)},
                  {10010}, {Null, Some(1000)}, {"Food", "Travel"})
ExportPdfCents == ExportPdf({AllRecords})
ExportExcelCents == ExportExcel({AllRecords})
NextCents ==
    \/ CreateCents
    \/ ExportPdfCents
    \/ ExportExcelCents
    \/ Deliver
SpecCents == InitCents /\ [][NextCents]_vars

RECURSIVE SumField(_, _)
SumField(rows, f) == IF rows = <<>> THEN 0 ELSE Head(rows)[f] + SumField(Tail(rows), f)

\* The period total rows of the printed ledger.
PeriodTotals(ledger) == SelectSeq(ledger, LAMBDA row : row.kind = "periodTotal")

\* C22: in each export the per-period totals and the per-category totals
\* both sum to the grand total, for amount, tax and record count: in the
\* PDF the period total rows and the category-breakdown rows sum to the
\* cover totals, in the workbook the Monthly Summary and Category Summary
\* rows sum to the detail rows.  (The category-breakdown rows print tax with
\* three decimals; their tax is left out of the comparison with the cover.)
C22_GroupTotalsSumToGrandTotal ==
    /\ response.op = "export" =>
          /\ SumField(response.monthlySummaryData, "TotalPaid")
                = SumField(response.excelData, "TotalPaid")
          /\ SumField(response.monthlySummaryData, "Tax") = SumField(response.excelData, "Tax")
          /\ SumField(response.monthlySummaryData, "Receipts") = Len(response.excelData)
          /\ SumField(response.categorySummaryData, "total")
                = SumField(response.excelData, "TotalPaid")
          /\ SumField(response.categorySummaryData, "tax") = SumField(response.excelData, "Tax")
          /\ SumField(response.categorySummaryData, "count") = Len(response.excelData)
    /\ response.op = "export-pdf" =>
          /\ SumField(response.printedCategoryRows, "count") = response.cover.count
          /\ SumField(response.printedCategoryRows, "total") = 10 * response.cover.total
          /\ SumField(PeriodTotals(response.printedLedger), "total") = response.cover.total
          /\ SumField(PeriodTotals(response.printedLedger), "tax") = response.cover.tax

\* --- routing of GET requests
\* The GET routes under /api in registration order; ":id" matches any
\* single segment.
GetRoutes ==
    << [handler |-> "list", path |-> <<"api", "receipts">>],
       [handler |-> "export-pdf", path |-> <<"api", "receipts", "export-pdf">>],
       [handler |-> "export", path |-> <<"api", "receipts", "export">>],
       [handler |-> "summary", path |-> <<"api", "receipts", "summary">>],
       [handler |-> "get", path |-> <<"api", "receipts", ":id">>],
       [handler |-> "backup", path |-> <<"api", "backup">>] >>

RouteMatches(route, path) ==
    /\ Len(route.path) = Len(path)
    /\ \A i \in DOMAIN path : route.path[i] = ":id" \/ route.path[i] = path[i]

\* The first route at or after position from that matches, 0 when none does.
NextRoute(path, from) ==
    LET hits == {i \in from .. Len(GetRoutes) : RouteMatches(GetRoutes[i], path)}
    IN  IF hits = {} THEN 0 ELSE CHOOSE i \in hits : \A j \in hits : i <= j

\* Number(req.params.id) on the segments requested here: a decimal numeral
\* gives its value, any other of these words gives NaN (Null).
DecimalValue == ("1" :> 1) @@ ("2" :> 2) @@ ("9" :> 9)
NumberOfParamOrZero(text) == IF text \in DOMAIN DecimalValue THEN Some(DecimalValue[text]) ELSE Some(0)
NumberOfParam(text) == IF text \in DOMAIN DecimalValue THEN Some(DecimalValue[text]) ELSE Null

\* storage.getReceipt: the row with this id, Null when there is none.
getReceipt(rows, id) ==
    LET hits == SelectSeq(rows, LAMBDA r : r.id = id)
    IN  IF hits = <<>> THEN Null ELSE Some(hits[1])

\* What answers when the handler of route i has not been the by-id
\* handler, or nothing matched (i = 0).
Routed(path, i) ==
    IF i = 0
    THEN [op |-> "unmatched", path |-> path]
    ELSE [op |-> "routed", path |-> path, handler |-> GetRoutes[i].handler]

\* GET of a path: the first matching route answers; the by-id handler
\* passes a NaN id on to the next matching route, answers 404 when no
\* record has the id, and the record otherwise.
GetReceipt(Paths) ==
    /\ response = Idle
    /\ \E path \in Paths :
          LET i == NextRoute(path, 1)
          IN  IF i = 0 \/ GetRoutes[i].handler # "get"
              THEN response' = Routed(path, i)
              ELSE LET id == NumberOfParam(path[3])
                       receipt == IF id = Null THEN Null ELSE getReceipt(receipts, id[1])
                   IN  response' =
                          IF id = Null THEN Routed(path, NextRoute(path, i + 1))
                          ELSE IF receipt = Null
                          THEN [op |-> "get", status |-> 404, path |-> path]
                          ELSE [op |-> "get", status |-> 200, path |-> path,
                                receipt |-> receipt[1]]
    /\ UNCHANGED <<tz, receipts, nextId, client>>

RouteSegments == {"summary", "export", "export-pdf", "1", "2", "9", "abc"}
RoutePaths == {<<"api", "receipts", x>> : x \in RouteSegments} \cup {<<"api", "backup">>}

InitRoutes == Init({0})
CreateRoutes ==
    CreateReceipt({"user1"}, {Star}, {NewDateISO(2024, 1, 15), NewDateISO(2024, 2, 10)},
                  {5000, 10500}, {Null}, {"Food"})
GetReceiptRoutes == GetReceipt(RoutePaths)
NextRoutes ==
    \/ CreateRoutes
    \/ GetReceiptRoutes
    \/ Deliver
SpecRoutes == InitRoutes /\ [][NextRoutes]_vars

OwnHandlerSegments == {"summary", "export", "export-pdf"}

RestoreBodies ==
    {[isArray |-> FALSE, receipts |-> <<>>, userId |-> Null],
     [isArray |-> TRUE, userId |-> Null,
      receipts |-> <<RestoreItem(Null, Some(ToISOString(StoreDate)), Some(5000), Null, Some("Food"), Null),
                     RestoreItem(Some(Star), Some(ToISOString(StoreDate)), Text("abc"), Null, Some("Food"),
                                 Null),
                     RestoreItem(Some(Star), Some(ToISOString(StoreDate)), Some(10500), Some(1000),
                                 Some("Travel"), Some("user2"))>>],
     [isArray |-> TRUE, userId |-> Some("user2"),
      receipts |-> <<RestoreItem(Some(Star), Some(ToISOString(StoreDate)), Some(5000), Null, Some("Food"),
                                 Null)>>],
     [isArray |-> TRUE, userId |-> Null, receipts |-> <<>>]}

InitRestore == Init(TimeZones)
CreateRestore ==
    CreateReceipt({"user1"}, {Star}, {StoreDate}, {5000, 10500}, {Null, Some(1000)},
                  {"Food", "Travel"})
RestoreRestore == Restore(RestoreBodies)
ListRestore == ListReceipts({AllRecords})
NextRestore ==
    \/ CreateRestore
    \/ RestoreRestore
    \/ ListRestore
    \/ Deliver
SpecRestore == InitRestore /\ [][NextRestore]_vars

\* An entry the restore can import: merchant, date and amount present and
\* the amount a number (Some of it).
Importable(item) ==
    /\ item.merchantName # Null /\ item.merchantName # Some(<<>>)
    /\ item.date # Null
    /\ Len(item.amount) = 1

\* C24: a restore of an array of n entries is answered 200 after processing
\* every entry: each is imported as one new record or skipped, imported +
\* skipped = n, the store
\* grows by exactly the imported count, the records it held are unchanged,
\* and every importable entry is imported whatever precedes it.
C24_RestoreProcessesEveryEntry ==
    [][response = Idle /\ response' # Idle /\ response'.op = "restore"
          /\ response'.body.isArray =>
          LET items == response'.body.receipts
              good == SelectSeq(items, Importable)
          IN  /\ response'.status = 200
              /\ response'.imported + response'.skipped = Len(items)
              /\ response'.imported = Len(good)
              /\ Len(receipts') = Len(receipts) + response'.imported
              /\ SubSeq(receipts', 1, Len(receipts)) = receipts
              /\ \A i \in DOMAIN good :
                    LET row == receipts'[Len(receipts) + i]
                    IN  /\ row.merchantName = good[i].merchantName[1]
                        /\ row.amount = good[i].amount[1]
                        /\ row.tax = good[i].tax
                        /\ \A j \in 1 .. Len(receipts) : receipts[j].id # row.id]_vars

\* A restore of three entries onto a store of one record has imported the
\* third after skipping an invalid and a failing one.
C24_Witness ==
    /\ response # Idle /\ response.op = "restore" /\ response.status = 200
    /\ response.imported = 1 /\ response.skipped = 2
    /\ Len(receipts) = 2
    /\ receipts[2].amount = 10500 /\ receipts[2].userId = "user2"

\* --- backup, then restore of the saved file
\* A row as the backup's JSON carries it: every column present, the date as
\* its ISO text, an absent tax as null.
BackupItem(r) ==
    RestoreItem(Some(r.merchantName), Some(ToISOString(r.date)), Some(r.amount), r.tax,
                Some(r.category), Some(r.userId))

\* The browser saves the backup it was sent.
SaveBackup ==
    /\ response # Idle /\ response.op = "backup" /\ response.status = 200
    /\ backupFile' = Some([userId |-> response.userId,
                           receipts |-> [i \in DOMAIN response.receipts |->
                                            BackupItem(response.receipts[i])]])
    /\ response' = Idle
    /\ UNCHANGED <<tz, receipts, nextId, modal>>

\* The application is installed anew: an empty receipts table.
FreshInstall ==
    /\ response = Idle
    /\ backupFile # Null
    /\ receipts # <<>>
    /\ receipts' = <<>>
    /\ nextId' = 1
    /\ UNCHANGED <<tz, response, client>>

\* handleRestoreFile: the saved file's receipts are posted with the owner
\* the page shows.
RestoreFile(Users) ==
    /\ backupFile # Null
    /\ Restore({[isArray |-> TRUE, receipts |-> backupFile[1].receipts, userId |-> Some(u)] :
                   u \in Users})

InitRoundTrip == Init({0})
CreateRoundTrip ==
    CreateReceipt({"user1", "user2"}, {Star}, {NewDateISO(2024, 2, 10) + 18},
                  {5000}, {Null, Some(1000)}, {"Food", ""})
BackupRoundTrip == Backup({Some("user1")})
RestoreFileRoundTrip == RestoreFile({"user1"})
NextRoundTrip ==
    \/ CreateRoundTrip
    \/ BackupRoundTrip
    \/ SaveBackup
    \/ FreshInstall
    \/ RestoreFileRoundTrip
    \/ Deliver
SpecRoundTrip == InitRoundTrip /\ [][NextRoundTrip]_vars

\* C25: a backup taken for owner u and restored for owner u into an empty
\* store skips nothing and yields records equal to the backed-up ones in
\* merchant, date, amount, tax (an absent tax stays absent), category and
\* owner.
C25_BackupRestoreRoundTrip ==
    [][/\ response = Idle /\ response' # Idle /\ response'.op = "restore"
       /\ receipts = <<>> /\ backupFile # Null
       /\ response'.body.userId = backupFile[1].userId
       =>
       LET items == backupFile[1].receipts
       IN  /\ response'.status = 200
           /\ response'.skipped = 0
           /\ response'.imported = Len(items)
           /\ Len(receipts') = Len(items)
           /\ \A i \in DOMAIN items :
                 /\ receipts'[i].merchantName = items[i].merchantName[1]
                 /\ ToISOString(receipts'[i].date) = items[i].date[1]
                 /\ receipts'[i].amount = items[i].amount[1]
                 /\ receipts'[i].tax = items[i].tax
                 /\ receipts'[i].category = items[i].category[1]
                 /\ receipts'[i].userId = items[i].userId[1]]_vars

\* ------------------------------------------------------------ upload modal
\* A file of the list is [name, status, form]; form is Null while the file
\* has no formData.  The names of the files a user selects, in the order
\* they are selected (the part before the dot).
FileNames == << <<"a">>, <<"b">>, <<"c">>, <<"d">>, <<"e">>, <<"f">>, <<"g">>, <<"h">> >>
FileName(k) == FileNames[k]

\* updateFile: setFiles(prev => prev.map((f, i) => i === index ? {...f,
\* ...updates} : f)); a Null form stands for updates without formData.
UpdateFile(files, index, status, form) ==
    [i \in DOMAIN files |->
        IF i = index + 1
        THEN [files[i] EXCEPT !.status = status,
                              !.form = IF form = Null THEN @ ELSE form]
        ELSE files[i]]

\* The form data an analysis gives, and the defaults after a failed one.
AnalyzedForm ==
    [merchantName |-> Some(Star), amount |-> 5000, tax |-> 250, category |-> "Food"]
DefaultForm(name) ==
    [merchantName |-> Some(name), amount |-> 0, tax |-> 0, category |-> "Other"]
ManualForm == [merchantName |-> Null, amount |-> 0, tax |-> 0, category |-> "Other"]

resetModal(m) == [m EXCEPT !.step = "upload", !.files = <<>>, !.index = 0]

\* handleOpenChange: closing schedules resetModal 300 ms later.
handleOpenChange(m, newOpen) ==
    [m EXCEPT !.open = newOpen, !.timers = IF newOpen THEN @ ELSE @ + 1]

\* files.findIndex((f, i) => i > index && f.status === "ready")
FindNextReady(files, index) ==
    LET hits == {i \in 0 .. (Len(files) - 1) : i > index /\ files[i + 1].status = "ready"}
    IN  IF hits = {} THEN -1 ELSE CHOOSE i \in hits : \A j \in hits : i <= j

RemoveAt(seq, k) == SubSeq(seq, 1, k - 1) \o SubSeq(seq, k + 1, Len(seq))

\* handleFileSelect after processFile(fileUploads[i], i) has resolved: the
\* next file starts uploading, or the loop ends with step "review" and
\* review index 0.
LoopAdvance(m, l) ==
    LET loop == m.loops[l]
    IN  IF loop.i + 1 < Len(loop.names)
        THEN [m EXCEPT !.files = UpdateFile(@, loop.i + 1, "uploading", Null),
                       !.loops[l] = [loop EXCEPT !.i = @ + 1, !.pc = "uploading"]]
        ELSE [m EXCEPT !.step = "review", !.index = 0, !.loops = RemoveAt(@, l)]

\* The parent opens the dialog.
OpenDialog ==
    /\ ~modal.open
    /\ modal' = handleOpenChange(modal, TRUE)
    /\ UNCHANGED <<tz, receipts, nextId, response, backupFile>>

\* Cancel, Escape or a click outside, at one of the given steps.
CloseDialog(Steps) ==
    /\ modal.open
    /\ modal.step \in Steps
    /\ modal.timers < MaxTimers
    /\ modal' = handleOpenChange(modal, FALSE)
    /\ UNCHANGED <<tz, receipts, nextId, response, backupFile>>

\* A reset timer fires.
ResetTimer ==
    /\ modal.timers > 0
    /\ modal' = [resetModal(modal) EXCEPT !.timers = @ - 1]
    /\ UNCHANGED <<tz, receipts, nextId, response, backupFile>>

\* handleFileSelect up to its first await: n image files are selected, the
\* list is set, the step is "processing" and the first file is uploading.
FileSelect(Counts, Limit) ==
    /\ modal.open
    /\ modal.step = "upload"
    /\ \E n \in Counts :
          /\ modal.nextFile + n - 1 <= Limit
          /\ LET names == [k \in 1 .. n |-> FileName(modal.nextFile + k - 1)]
                 fileUploads == [k \in 1 .. n |->
                                    [name |-> names[k], status |-> "pending", form |-> Null]]
             IN  modal' = [modal EXCEPT
                              !.files = UpdateFile(fileUploads, 0, "uploading", Null),
                              !.step = "processing",
                              !.loops = Append(@, [names |-> names, i |-> 0,
                                                   pc |-> "uploading"]),
                              !.nextFile = @ + n]
    /\ UNCHANGED <<tz, receipts, nextId, response, backupFile>>

\* processFile: the POST /api/upload of a loop's current file is answered.
UploadDone(Outcomes) ==
    /\ \E l \in DOMAIN modal.loops, ok \in Outcomes :
          LET loop == modal.loops[l]
          IN  /\ loop.pc = "uploading"
              /\ modal' =
                    IF ok
                    THEN [modal EXCEPT
                             !.files = UpdateFile(@, loop.i, "analyzing", Null),
                             !.loops[l] = [loop EXCEPT !.pc = "analyzing"]]
                    ELSE LoopAdvance([modal EXCEPT
                                         !.files = UpdateFile(@, loop.i, "error", Null)], l)
    /\ UNCHANGED <<tz, receipts, nextId, response, backupFile>>

\* processFile: the analysis of a loop's current file succeeds or fails.
AnalyzeDone(Outcomes) ==
    /\ \E l \in DOMAIN modal.loops, ok \in Outcomes :
          LET loop == modal.loops[l]
              form == IF ok THEN AnalyzedForm ELSE DefaultForm(loop.names[loop.i + 1])
          IN  /\ loop.pc = "analyzing"
              /\ modal' = LoopAdvance([modal EXCEPT
                                          !.files = UpdateFile(@, loop.i, "ready", Some(form))],
                                      l)
    /\ UNCHANGED <<tz, receipts, nextId, response, backupFile>>

\* handleManualEntry
ManualEntry(Limit) ==
    /\ modal.open
    /\ modal.step = "upload"
    /\ modal.nextFile <= Limit
    /\ modal' = [modal EXCEPT
                    !.files = <<[name |-> FileName(modal.nextFile), status |-> "ready",
                                 form |-> Some(ManualForm)]>>,
                    !.step = "review", !.index = 0, !.nextFile = @ + 1]
    /\ UNCHANGED <<tz, receipts, nextId, response, backupFile>>

\* The review form is rendered: step "review" with a file at the index.
ReviewShown == modal.open /\ modal.step = "review" /\ modal.index < Len(modal.files)

\* The required fields handleSaveCurrent asks for.
FormComplete(form) == form # Null /\ form[1].merchantName # Null

\* updateCurrentFormData: the user types the merchant into a form that
\* lacks it.
UpdateCurrentFormData ==
    /\ ReviewShown
    /\ LET current == modal.files[modal.index + 1]
       IN  /\ current.form # Null /\ current.form[1].merchantName = Null
           /\ modal' = [modal EXCEPT !.files[modal.index + 1].form =
                                        Some([current.form[1] EXCEPT
                                                 !.merchantName = Some(Star)])]
    /\ UNCHANGED <<tz, receipts, nextId, response, backupFile>>

\* handleSaveCurrent, with the Save button enabled and the form complete:
\* the file is "saving" and the create request is pending; its callbacks
\* keep the review index and the file list of this render.
SaveCurrent ==
    /\ ReviewShown
    /\ modal.save = Null
    /\ LET current == modal.files[modal.index + 1]
       IN  /\ current.status # "saving"
           /\ FormComplete(current.form)
           /\ modal' = [modal EXCEPT
                           !.files = UpdateFile(@, modal.index, "saving", Null),
                           !.save = Some([index |-> modal.index, files |-> modal.files,
                                          name |-> current.name,
                                          data |-> current.form[1]])]
    /\ UNCHANGED <<tz, receipts, nextId, response, backupFile>>

\* The create request is answered: onSuccess marks the file "done" and
\* moves to the next ready file of the list it kept or closes the dialog;
\* onError returns the file to "ready".
SaveDone(Outcomes) ==
    /\ modal.save # Null
    /\ \E ok \in Outcomes :
          LET save == modal.save[1]
              nextIndex == FindNextReady(save.files, save.index)
              marked == [modal EXCEPT !.files = UpdateFile(@, save.index, "done", Null),
                                      !.save = Null,
                                      !.created = Append(@, save.name)]
          IN  IF ok
              THEN /\ nextIndex = -1 => modal.timers < MaxTimers
                   /\ receipts' = Append(receipts,
                                         NewReceipt(nextId, "user1", save.data.merchantName[1],
                                                    StoreDate, save.data.amount,
                                                    Some(save.data.tax), save.data.category))
                   /\ nextId' = nextId + 1
                   /\ modal' = IF nextIndex # -1
                               THEN [marked EXCEPT !.index = nextIndex]
                               ELSE handleOpenChange(marked, FALSE)
              ELSE /\ modal' = [modal EXCEPT
                                   !.files = UpdateFile(@, save.index, "ready", Null),
                                   !.save = Null]
                   /\ UNCHANGED <<receipts, nextId>>
    /\ UNCHANGED <<tz, response, backupFile>>

\* skipCurrent: the Skip button is there when the list has several files.
SkipCurrent ==
    /\ ReviewShown
    /\ Len(modal.files) > 1
    /\ LET nextIndex == FindNextReady(modal.files, modal.index)
       IN  IF nextIndex # -1
           THEN modal' = [modal EXCEPT !.index = nextIndex]
           ELSE /\ modal.timers < MaxTimers
                /\ modal' = handleOpenChange(modal, FALSE)
    /\ UNCHANGED <<tz, receipts, nextId, response, backupFile>>

\* --- the modal while files are processed: the dialog is closed and opened
\* at any step
ModalSteps == {"upload", "processing", "review"}
InitUpload == Init({0})
OpenUpload == OpenDialog
CloseUpload == CloseDialog(ModalSteps)
ResetUpload == ResetTimer
FileSelectUpload == FileSelect(1 .. MaxFiles, MaxFiles)
UploadDoneUpload == UploadDone(BOOLEAN)
AnalyzeDoneUpload == AnalyzeDone(BOOLEAN)
ManualEntryUpload == ManualEntry(MaxFiles)
SkipUpload == SkipCurrent
NextUpload ==
    \/ OpenUpload
    \/ CloseUpload
    \/ ResetUpload
    \/ FileSelectUpload
    \/ UploadDoneUpload
    \/ AnalyzeDoneUpload
    \/ ManualEntryUpload
    \/ SkipUpload
SpecUpload == InitUpload /\ [][NextUpload]_vars

\* C26: once the dialog has been closed and every reset timer has fired,
\* each later opening finds the modal at step "upload" with an empty file
\* list and review index 0, also when files were still being uploaded or
\* analyzed at the close and their completions arrive after the reset.
C26_OpensReset ==
    [][~modal.open /\ modal'.open /\ modal.timers = 0 =>
          /\ modal'.step = "upload"
          /\ modal'.files = <<>>
          /\ modal'.index = 0]_vars

\* C27: while the dialog shows step "review", the file at currentReviewIndex
\* exists, has status "ready" or "saving" and has form data; in particular
\* it is no file whose upload failed.
C27_ReviewedFileIsReady ==
    modal.open /\ modal.step = "review" =>
        /\ modal.index < Len(modal.files)
        /\ modal.files[modal.index + 1].status \in {"ready", "saving"}
        /\ modal.files[modal.index + 1].form # Null

InFlight(files) == {i \in DOMAIN files : files[i].status \in {"uploading", "analyzing"}}

Advances(from, to) ==
    \/ from = to
    \/ from = "pending" /\ to = "uploading"
    \/ from = "uploading" /\ to \in {"analyzing", "error"}
    \/ from = "analyzing" /\ to = "ready"

\* C28: selected files are processed one after another: at most one file is
\* "uploading" or "analyzing" at a time, a file's status only advances
\* pending -> uploading -> analyzing -> ready or -> error, a file that
\* becomes "ready" has form data (the defaults after a failed analysis), and
\* the step becomes "review" only when every file is "ready" or "error".
C28_FilesAreProcessedInTurn ==
    [][/\ Cardinality(InFlight(modal'.files)) <= 1
       /\ \A i \in DOMAIN modal.files \cap DOMAIN modal'.files :
             modal.files[i].name = modal'.files[i].name =>
                /\ Advances(modal.files[i].status, modal'.files[i].status)
                /\ modal.files[i].status # "ready" /\ modal'.files[i].status = "ready" =>
                      modal'.files[i].form \in
                         {Some(AnalyzedForm), Some(DefaultForm(modal.files[i].name))}
       /\ modal.step # "review" /\ modal'.step = "review" =>
             \A i \in DOMAIN modal'.files : modal'.files[i].status \in {"ready", "error"}]_vars

\* --- the modal under review: the dialog is closed only at steps "upload"
\* and "review"
InitReview == Init({0})
OpenReview == OpenDialog
CloseReview == CloseDialog({"upload", "review"})
ResetReview == ResetTimer
FileSelectReview == FileSelect(1 .. MaxReviewFiles, MaxReviewFiles)
UploadDoneReview == UploadDone(BOOLEAN)
AnalyzeDoneReview == AnalyzeDone(BOOLEAN)
ManualEntryReview == ManualEntry(MaxReviewFiles)
UpdateFormReview == UpdateCurrentFormData
SaveReview == SaveCurrent
SaveDoneReview == SaveDone(BOOLEAN)
SkipReview == SkipCurrent
NextReview ==
    \/ OpenReview
    \/ CloseReview
    \/ ResetReview
    \/ FileSelectReview
    \/ UploadDoneReview
    \/ AnalyzeDoneReview
    \/ ManualEntryReview
    \/ UpdateFormReview
    \/ SaveReview
    \/ SaveDoneReview
    \/ SkipReview
SpecReview == InitReview /\ [][NextReview]_vars

\* C29: in the review step each file leads to at most one stored record: a
\* file whose record was created is never submitted again, a failed save
\* returns the file to "ready" and stores nothing, the review index only
\* moves forward, to the next "ready" file, and a successful save leaves the
\* dialog open exactly when a later "ready" file remains.
C29_OneRecordPerFile ==
    [][/\ \A i, j \in DOMAIN modal'.created :
             modal'.created[i] = modal'.created[j] => i = j
       /\ Len(receipts') = Len(modal'.created)
       /\ modal.save = Null /\ modal'.save # Null =>
             /\ modal.files[modal.index + 1].status # "done"
             /\ \A i \in DOMAIN modal.created : modal.created[i] # modal'.save[1].name
       /\ modal.save # Null /\ modal'.save = Null /\ modal'.created = modal.created =>
             /\ receipts' = receipts
             /\ modal.save[1].index < Len(modal'.files) =>
                   modal'.files[modal.save[1].index + 1].status = "ready"
       /\ modal.step = "review" /\ modal'.step = "review" /\ modal'.files # <<>>
             /\ modal'.index # modal.index =>
             /\ modal'.index > modal.index
             /\ modal'.index = FindNextReady(modal'.files, modal.index)
       /\ modal'.created # modal.created /\ modal.open =>
             (modal'.open <=> FindNextReady(modal.files, modal.save[1].index) # -1)]_vars

\* ------------------------------------------------------------ pages' totals
\* Yearly Expenses page: groupedByMonth, keyed by the month the browser's
\* clock shows; each group adds Number(amount) to total and
\* Number(tax || amount - amount / 1.05) to tax.
RECURSIVE YearlyGroupedByMonth(_, _)
YearlyGroupedByMonth(rows, zone) ==
    IF rows = <<>> THEN <<>>
    ELSE LET acc == YearlyGroupedByMonth(SubSeq(rows, 1, Len(rows) - 1), zone)
             receipt == rows[Len(rows)]
             monthKey == LocalMonthOf(receipt.date, zone)
             old == IF MapHas(acc, monthKey) THEN MapGet(acc, monthKey)
                    ELSE [total |-> 0, tax |-> 0]
         IN  MapSet(acc, monthKey,
                    [total |-> old.total + Number(receipt.amount),
                     tax |-> old.tax + ExportTax(receipt)])

RECURSIVE SumOfGroups(_, _)
SumOfGroups(groups, f) ==
    IF groups = <<>> THEN 0 ELSE Head(groups).value[f] + SumOfGroups(Tail(groups), f)

\* grandTotal, grandTax and the "Grand Total" tile of the Yearly Expenses
\* page.
YearlyGrandTotal(rows, zone) == SumOfGroups(YearlyGroupedByMonth(rows, zone), "total")
YearlyGrandTax(rows, zone) == SumOfGroups(YearlyGroupedByMonth(rows, zone), "tax")
YearlyGrandTotalShown(rows, zone) == YearlyGrandTotal(rows, zone) + YearlyGrandTax(rows, zone)

\* The "Grand Total" line of the Reports page.
ReportsGrandTotalShown(summary) == summary.totalExpenses + summary.totalTax

\* --- the two pages over the same store
InitTotals == Init(TimeZones)
CreateTotals ==
    CreateReceipt({"user1"}, {Star}, SummaryDates, {5000, 10500}, {Null, Some(0), Some(1000)},
                  {"Food"})
ListTotals == ListReceipts({Filter(Some("user1"), Null, Null, Some(2024), Null, Null, Null)})
SummaryTotals == Summary({Some("user1")}, {Some(2024)}, FilterClock)
NextTotals ==
    \/ CreateTotals
    \/ ListTotals
    \/ SummaryTotals
    \/ Deliver
SpecTotals == InitTotals /\ [][NextTotals]_vars

\* C30: the "Grand Total" shown on the Yearly Expenses page and on the
\* Reports page equals the sum of the tax-inclusive amounts of the selected
\* records, the value shown as Total Expenses, with tax counted once.
C30_GrandTotalCountsTaxOnce ==
    /\ response.op = "list" =>
          /\ YearlyGrandTotal(response.rows, tz) = SumAmount(response.rows)
          /\ YearlyGrandTotalShown(response.rows, tz) = SumAmount(response.rows)
    /\ response.op = "summary" =>
          /\ response.stats.totalExpenses = SumAmount(response.rows)
          /\ ReportsGrandTotalShown(response.stats) = response.stats.totalExpenses

====
